---- MODULE Spec2Model ----
(***************************************************************************)
(* Verification development for the Solana Attestation Service guides:     *)
(* the ledger accounts the guides create (credential, schema, attestation, *)
(* Token-2022 mints), the wall clock, and the two verification functions   *)
(* of the guides, verifyAttestation and verifyTokenAttestation, as the     *)
(* sequence of awaited steps their code performs.                          *)
(***************************************************************************)
EXTENDS Integers, Sequences, FiniteSets, TLC

(***************************************************************************)
(* Bounds of the model.                                                    *)
(***************************************************************************)
\* Seconds sampled on each side of the demo expiry.
MaxSkew == 1

(***************************************************************************)
(* Program constants.                                                      *)
(***************************************************************************)
\* CONFIG.ATTESTATION_EXPIRY_DAYS
ATTESTATION_EXPIRY_DAYS == 365
\* the factor 24 * 60 * 60 of the expiry computation
SecondsPerDay == 24 * 60 * 60
\* Resolution of the modelled clock.  Date.now() counts milliseconds; the
\* model counts half seconds so that a year of them fits TLC's integers,
\* and Math.floor(Date.now() / 1000) is the division by TicksPerSecond.
TicksPerSecond == 2
\* "only first 32 bytes used" of a name in a PDA seed
MaxSeedLen == 32
\* Schema layout type tags (Schema Layout Data Types table)
U8 == 0
String == 12
\* width in bytes of the length prefix of an encoded String
StringPrefixLen == 4

ExpirySeconds == ATTESTATION_EXPIRY_DAYS * SecondsPerDay
ExpiryTicks == ExpirySeconds * TicksPerSecond

(***************************************************************************)
(* Inputs: wallets, names, layouts and payloads of the guides.             *)
(***************************************************************************)
\* setupWallets: issuer, the two authorized signers, testUser; randomUser
\* is the second subject of Step 6.
Issuers == {"issuer"}
AuthorizedSignerWallets == {"authorizedSigner1", "authorizedSigner2"}
Users == {"testUser", "randomUser"}
\* A string that is not a base58 address, passed where an Address is typed.
BadAddress == "not-an-address"
UserInputs == Users \cup {BadAddress}

\* CONFIG.CREDENTIAL_NAME 'TEST-ORGANIZATION' and CONFIG.SCHEMA_NAME
\* 'THE-BASICS' as UTF-8 bytes.
CREDENTIAL_NAME == <<84, 69, 83, 84, 45, 79, 82, 71, 65, 78, 73, 90, 65, 84, 73, 79, 78>>
SCHEMA_NAME == <<84, 72, 69, 45, 66, 65, 83, 73, 67, 83>>
SCHEMA_LAYOUT == <<String, U8, String>>
SCHEMA_FIELDS == <<"name", "age", "country">>
\* CONFIG.SCHEMA_VERSION
SCHEMA_VERSION == 1
SchemaVersions == {SCHEMA_VERSION}

\* serializeAttestationData(schema.data, CONFIG.ATTESTATION_DATA):
\* "test-user", 100, "usa" with a little-endian u32 length before each string.
ATTESTATION_DATA_BYTES ==
    <<9, 0, 0, 0, 116, 101, 115, 116, 45, 117, 115, 101, 114, 100,
      3, 0, 0, 0, 117, 115, 97>>
\* The same bytes cut inside the second string: they do not decode.
TRUNCATED_DATA_BYTES == SubSeq(ATTESTATION_DATA_BYTES, 1, 19)
PayloadChoices == {ATTESTATION_DATA_BYTES, TRUNCATED_DATA_BYTES}

(***************************************************************************)
(* Address Deriver.  An address is modelled by the seeds it is derived     *)
(* from (the hash is taken to be injective).                               *)
(***************************************************************************)
Min(a, b) == IF a < b THEN a ELSE b

\* a derivation that puts the whole name into the seeds
NameSeedWhole(name) == name

NameSeed(name) == SubSeq(name, 1, Min(Len(name), MaxSeedLen))

deriveCredentialPda(authority, name) ==
    <<"credential", authority, NameSeed(name)>>

deriveSchemaPda(credential, name, version) ==
    <<"schema", credential, NameSeed(name), version>>

\* a derivation that leaves the nonce out of the seeds
deriveAttestationPdaWithoutNonce(credential, schema, nonce) ==
    <<"attestation", credential, schema, "testUser">>

deriveAttestationPda(credential, schema, nonce) ==
    <<"attestation", credential, schema, nonce>>

deriveSchemaMintPda(schema) == <<"schemaMint", schema>>

deriveAttestationMintPda(attestation) == <<"attestationMint", attestation>>

findAssociatedTokenPda(mint, owner) == <<"ata", mint, owner>>

\* the address an attestation without a token holds as its token account
DefaultAddress == <<"default">>

\* getAddressEncoder rejects a string that is not an address
IsAddress(a) == a \in Users

CredentialAddrs == {deriveCredentialPda(a, CREDENTIAL_NAME) : a \in Issuers}
SchemaAddrs ==
    {deriveSchemaPda(c, SCHEMA_NAME, v) : c \in CredentialAddrs, v \in SchemaVersions}

(***************************************************************************)
(* Attestation payload decoding under a schema layout.                     *)
(***************************************************************************)
\* little-endian u32 at offset off (1-based), bytes below 128 in the model
ReadU32(data, off) ==
    data[off] + 256 * data[off + 1] + 65536 * data[off + 2]
        + 16777216 * data[off + 3]

\* What a try body evaluates to: a returned value or a thrown error.
Return(v) == [type |-> "return", value |-> v]
Throw(e) == [type |-> "throw", error |-> e]

RECURSIVE DecodeFrom(_, _, _, _)
\* Reads the fields layout[i..] from data starting at byte off and returns
\* the decoded values, or throws when the bytes run out.  Bytes after the
\* last field are ignored.
DecodeFrom(layout, i, data, off) ==
    IF i > Len(layout) THEN Return(<<>>)
    ELSE IF layout[i] = U8 THEN
        IF off > Len(data) THEN Throw("Decode")
        ELSE LET rest == DecodeFrom(layout, i + 1, data, off + 1)
             IN  IF rest.type = "throw" THEN rest
                 ELSE Return(<<data[off]>> \o rest.value)
    ELSE \* String
        IF off + StringPrefixLen - 1 > Len(data) THEN Throw("Decode")
        ELSE LET n == ReadU32(data, off)
                 start == off + StringPrefixLen
             IN  IF start + n - 1 > Len(data) THEN Throw("Decode")
                 ELSE LET rest == DecodeFrom(layout, i + 1, data, start + n)
                      IN  IF rest.type = "throw" THEN rest
                          ELSE Return(<<SubSeq(data, start, start + n - 1)>>
                                          \o rest.value)

deserializeAttestationData(schema, data) == DecodeFrom(schema.layout, 1, data, 1)

\* CONFIG.ATTESTATION_DATA, the strings as their bytes
ATTESTATION_DATA ==
    [name |-> <<116, 101, 115, 116, 45, 117, 115, 101, 114>>,
     age |-> 100,
     country |-> <<117, 115, 97>>]

\* little-endian u32
WriteU32(n) ==
    <<n % 256, (n \div 256) % 256, (n \div 65536) % 256, (n \div 16777216) % 256>>

RECURSIVE EncodeFrom(_, _, _, _)
\* Writes the fields layout[i..], each taken from data under its field name
EncodeFrom(layout, fieldNames, i, data) ==
    IF i > Len(layout) THEN <<>>
    ELSE LET value == data[fieldNames[i]]
             field == IF layout[i] = U8 THEN <<value>>
                      ELSE WriteU32(Len(value)) \o value
         IN  field \o EncodeFrom(layout, fieldNames, i + 1, data)

\* a serializer that writes the fields in the order of the object's sorted
\* keys (age, country, name)
serializeAttestationDataInKeyOrder(schema, data) ==
    EncodeFrom(<<U8, String, String>>, <<"age", "country", "name">>, 1, data)

serializeAttestationData(schema, data) ==
    EncodeFrom(schema.layout, schema.fieldNames, 1, data)

(***************************************************************************)
(* State.                                                                  *)
(***************************************************************************)
VARIABLES
    credentials,    \* ledger: credential address -> Credential account
    schemas,        \* ledger: schema address -> Schema account
    attestations,   \* ledger: attestation address -> Attestation account
    mints,          \* ledger: mint address -> Token-2022 mint account
    now,            \* wall clock, in ticks
    everCreated,    \* <<schema, nonce>> pairs an attestation was created for
    closedBy,       \* closed attestation address -> the instruction that closed it
    fn,             \* the verification function in progress
    schemaPda,      \* its argument
    userAddress,    \* its argument
    pc,             \* the await the call is suspended at
    schema,         \* local: the fetched schema account
    attestationPda, \* local: the derived attestation address
    promise,        \* the Promise the call returned
    cause,          \* why the call produced its result
    stable,         \* no transaction was confirmed since the call began
    trace,          \* the awaits the call has come back from, in order
    peer,           \* a second verification the caller runs at the same time
    deriver,        \* a caller of the Address Deriver: its inputs and results
    codec,          \* a caller of the attestation data codec: its input and results
    main,           \* the demo script: the step it is at, its log and exit code
    workflow        \* the runs of the Sanity Studio workflow

ledger == <<credentials, schemas, attestations, mints>>
callVars == <<fn, schemaPda, userAddress, pc, schema, attestationPda, promise, cause,
              trace>>
\* what runs beside the verification: the second verification and the deriver
\* the other programs of the repository: the attestation data codec, the
\* demo's main and the deploy workflow
bystanders == <<codec, main, workflow>>
background == <<peer, deriver, bystanders>>
vars == <<credentials, schemas, attestations, mints, now, everCreated, closedBy,
          fn, schemaPda, userAddress, pc, schema, attestationPda, promise,
          cause, stable, trace, peer, deriver, codec, main, workflow>>

EmptyMap == [x \in {} |-> x]
Put(map, key, value) ==
    [x \in DOMAIN map \cup {key} |-> IF x = key THEN value ELSE map[x]]

Remove(map, key) == [x \in DOMAIN map \ {key} |-> map[x]]

\* no second verification is running; the deriver has not been called
PeerIdle == [pc |-> "idle"]
DeriverIdle == [pc |-> "idle"]
\* the codec has not been called, main has not started, nothing was pushed
CodecIdle == [pc |-> "idle"]
MainIdle == [pc |-> "idle"]
NoRuns == <<>>

Init ==
    /\ credentials = EmptyMap
    /\ schemas = EmptyMap
    /\ attestations = EmptyMap
    /\ mints = EmptyMap
    /\ now = 0
    /\ everCreated = {}
    /\ closedBy = EmptyMap
    /\ fn = "none"
    /\ schemaPda = "none"
    /\ userAddress = "none"
    /\ pc = "idle"
    /\ schema = "none"
    /\ attestationPda = "none"
    /\ promise = [state |-> "none"]
    /\ cause = "none"
    /\ stable = TRUE
    /\ trace = <<>>
    /\ peer = PeerIdle
    /\ deriver = DeriverIdle
    /\ codec = CodecIdle
    /\ main = MainIdle
    /\ workflow = NoRuns

(***************************************************************************)
(* The wall clock.  It only moves forward; the instants sampled are the    *)
(* start of the run and those around the expiry of an attestation issued   *)
(* at the start.                                                           *)
(***************************************************************************)
ClockInstants ==
    {0} \cup {ExpiryTicks + d :
                 d \in (0 - MaxSkew * TicksPerSecond) .. (MaxSkew * TicksPerSecond)}

\* Date.now() used as it is, without the conversion to seconds
CurrentTimestampUnconverted(ticks) == ticks

\* Math.floor(Date.now() / 1000)
CurrentTimestamp(ticks) == ticks \div TicksPerSecond

Tick ==
    /\ \E t \in ClockInstants : t > now /\ now' = t
    /\ UNCHANGED <<ledger, everCreated, closedBy, callVars, stable, background>>

(***************************************************************************)
(* Ledger transactions of the guides.  A confirmed transaction changes the *)
(* ledger; a failed one leaves it as it is.                                *)
(***************************************************************************)
\* Step 2: signers: [authorizedSigner1.address]
SignerLists == {<<"authorizedSigner1">>}
Range(seq) == {seq[i] : i \in DOMAIN seq}

Some(v) == [option |-> "Some", value |-> v]
None == [option |-> "None"]

\* every transaction is a ledger write a verification in progress, or one
\* whose result the caller still holds, may not have observed
Confirmed ==
    /\ stable' = (pc = "idle")
    /\ UNCHANGED <<now, callVars, background>>

CreateCredential(authority, name, signers) ==
    LET credential == deriveCredentialPda(authority, name) IN
    /\ credential \notin DOMAIN credentials
    /\ credentials' = Put(credentials, credential,
           [authority |-> authority, name |-> name, authorizedSigners |-> signers])
    /\ Confirmed
    /\ UNCHANGED <<schemas, attestations, mints, everCreated, closedBy>>

CreateSchema(authority, credential, name, version, layout, fieldNames) ==
    LET address == deriveSchemaPda(credential, name, version) IN
    /\ credential \in DOMAIN credentials
    /\ authority = credentials[credential].authority
    /\ address \notin DOMAIN schemas
    /\ schemas' = Put(schemas, address,
           [credential |-> credential, name |-> name, layout |-> layout,
            fieldNames |-> fieldNames, isPaused |-> FALSE, version |-> version])
    /\ Confirmed
    /\ UNCHANGED <<credentials, attestations, mints, everCreated, closedBy>>

\* isPaused "can be used to temporarily disable schema usage"
ChangeSchemaStatus(authority, address, isPaused) ==
    /\ address \in DOMAIN schemas
    /\ authority = credentials[schemas[address].credential].authority
    /\ schemas[address].isPaused # isPaused
    /\ schemas' = [schemas EXCEPT ![address].isPaused = isPaused]
    /\ Confirmed
    /\ UNCHANGED <<credentials, attestations, mints, everCreated, closedBy>>

TokenizeSchema(authority, credential, address) ==
    LET schemaMint == deriveSchemaMintPda(address) IN
    /\ address \in DOMAIN schemas
    /\ schemas[address].credential = credential
    /\ authority = credentials[credential].authority
    /\ schemaMint \notin DOMAIN mints
    /\ mints' = Put(mints, schemaMint,
           [extensions |-> Some(<<[kind |-> "GroupPointer",
                                   groupAddress |-> schemaMint]>>)])
    /\ Confirmed
    /\ UNCHANGED <<credentials, schemas, attestations, everCreated, closedBy>>

\* a program that lets any wallet sign an attestation
CanAttestWithAnySigner(authority, credential, address, nonce) ==
    /\ credential \in DOMAIN credentials
    /\ address \in DOMAIN schemas
    /\ schemas[address].credential = credential
    /\ ~schemas[address].isPaused
    /\ deriveAttestationPda(credential, address, nonce) \notin DOMAIN attestations

\* what create_attestation checks and the account it writes
CanAttest(authority, credential, address, nonce) ==
    /\ credential \in DOMAIN credentials
    /\ address \in DOMAIN schemas
    /\ schemas[address].credential = credential
    /\ ~schemas[address].isPaused
    /\ authority \in Range(credentials[credential].authorizedSigners)
    /\ deriveAttestationPda(credential, address, nonce) \notin DOMAIN attestations

AttestationAccount(authority, credential, address, nonce, data, expiry, tokenAccount) ==
    [nonce |-> nonce, credential |-> credential, schema |-> address,
     data |-> data, signer |-> authority, expiry |-> expiry,
     tokenAccount |-> tokenAccount]

\* Step 4: the issuer computes the expiry, a year after its current time,
\* before it sends the transaction
ExpiryTimestamp(ticks) == CurrentTimestamp(ticks) + ExpirySeconds

\* the instants at which issuers computed the expiry they pass
IssueInstants == {0}
ExpiryChoices == {ExpiryTimestamp(t) : t \in IssueInstants}

CreateAttestation(authority, credential, address, nonce, expiryTimestamp, data) ==
    LET attestation == deriveAttestationPda(credential, address, nonce)
    IN
    /\ CanAttest(authority, credential, address, nonce)
    /\ attestations' = Put(attestations, attestation,
           AttestationAccount(authority, credential, address, nonce, data,
                              expiryTimestamp, DefaultAddress))
    /\ everCreated' = everCreated \cup {<<address, nonce>>}
    /\ closedBy' = Remove(closedBy, attestation)
    /\ Confirmed
    /\ UNCHANGED <<credentials, schemas, mints>>

\* a mint initialised without the token metadata
AttestationMintExtensionsWithoutMetadata(attestation, address, schemaMint, attestationMint) ==
    << [kind |-> "GroupMemberPointer", memberAddress |-> attestationMint],
       [kind |-> "NonTransferable"],
       [kind |-> "MetadataPointer", metadataAddress |-> attestationMint],
       [kind |-> "PermanentDelegate"],
       [kind |-> "MintCloseAuthority"],
       [kind |-> "TokenGroupMember", group |-> schemaMint,
        mint |-> attestationMint] >>

\* the extensions of an attestation mint (Step 5 of the tokenized guide)
AttestationMintExtensions(attestation, address, schemaMint, attestationMint) ==
    << [kind |-> "GroupMemberPointer", memberAddress |-> attestationMint],
       [kind |-> "NonTransferable"],
       [kind |-> "MetadataPointer", metadataAddress |-> attestationMint],
       [kind |-> "PermanentDelegate"],
       [kind |-> "MintCloseAuthority"],
       [kind |-> "TokenMetadata", mint |-> attestationMint,
        additionalMetadata |-> [attestation |-> attestation, schema |-> address]],
       [kind |-> "TokenGroupMember", group |-> schemaMint,
        mint |-> attestationMint] >>

\* a program that mints the token whether or not the schema was tokenized
CreateTokenizedAttestationOnAnySchema(authority, credential, address, schemaMint, nonce, expiryTimestamp, data) ==
    LET attestation == deriveAttestationPda(credential, address, nonce)
        attestationMint == deriveAttestationMintPda(attestation)
        recipientTokenAccount == findAssociatedTokenPda(attestationMint, nonce)
    IN
    /\ CanAttest(authority, credential, address, nonce)
    /\ attestationMint \notin DOMAIN mints
    /\ attestations' = Put(attestations, attestation,
           AttestationAccount(authority, credential, address, nonce, data,
                              expiryTimestamp, recipientTokenAccount))
    /\ mints' = Put(mints, attestationMint,
           [extensions |-> Some(AttestationMintExtensions(
                attestation, address, schemaMint, attestationMint))])
    /\ everCreated' = everCreated \cup {<<address, nonce>>}
    /\ closedBy' = Remove(closedBy, attestation)
    /\ Confirmed
    /\ UNCHANGED <<credentials, schemas>>

\* schemaMint is an account the caller passes with the instruction
CreateTokenizedAttestation(authority, credential, address, schemaMint, nonce, expiryTimestamp, data) ==
    LET attestation == deriveAttestationPda(credential, address, nonce)
        attestationMint == deriveAttestationMintPda(attestation)
        recipientTokenAccount == findAssociatedTokenPda(attestationMint, nonce)
    IN
    /\ CanAttest(authority, credential, address, nonce)
    /\ deriveSchemaMintPda(address) \in DOMAIN mints
    /\ schemaMint \in DOMAIN mints
    /\ attestationMint \notin DOMAIN mints
    /\ attestations' = Put(attestations, attestation,
           AttestationAccount(authority, credential, address, nonce, data,
                              expiryTimestamp, recipientTokenAccount))
    /\ mints' = Put(mints, attestationMint,
           [extensions |-> Some(AttestationMintExtensions(
                attestation, address, schemaMint, attestationMint))])
    /\ everCreated' = everCreated \cup {<<address, nonce>>}
    /\ closedBy' = Remove(closedBy, attestation)
    /\ Confirmed
    /\ UNCHANGED <<credentials, schemas>>

\* Step 5 and the instruction's signers parameter: the new list, which
\* replaces the old one
SignerListChoices ==
    { <<"authorizedSigner1">>,
      <<"authorizedSigner1", "authorizedSigner2">>,
      <<"authorizedSigner2">> }

\* a program that adds the signers given to those already listed
ChangeAuthorizedSignersKeepingOld(authority, credential, signers) ==
    /\ credential \in DOMAIN credentials
    /\ authority = credentials[credential].authority
    /\ credentials' = [credentials EXCEPT ![credential].authorizedSigners =
           signers \o SelectSeq(@, LAMBDA w : w \notin Range(signers))]
    /\ Confirmed
    /\ UNCHANGED <<schemas, attestations, mints, everCreated, closedBy>>

\* a program that also lets a listed signer change the list
ChangeAuthorizedSignersByListedSigner(authority, credential, signers) ==
    /\ credential \in DOMAIN credentials
    /\ \/ authority = credentials[credential].authority
       \/ authority \in Range(credentials[credential].authorizedSigners)
    /\ credentials' = [credentials EXCEPT ![credential].authorizedSigners = signers]
    /\ Confirmed
    /\ UNCHANGED <<schemas, attestations, mints, everCreated, closedBy>>

ChangeAuthorizedSigners(authority, credential, signers) ==
    /\ credential \in DOMAIN credentials
    /\ authority = credentials[credential].authority
    /\ credentials' = [credentials EXCEPT ![credential].authorizedSigners = signers]
    /\ Confirmed
    /\ UNCHANGED <<schemas, attestations, mints, everCreated, closedBy>>

\* a program that marks the attestation closed and keeps its account
CloseAttestationKeepingAccount(authority, credential, attestation) ==
    /\ credential \in DOMAIN credentials
    /\ attestation \in DOMAIN attestations
    /\ attestations[attestation].credential = credential
    /\ authority \in Range(credentials[credential].authorizedSigners)
    /\ closedBy' = Put(closedBy, attestation, "CloseAttestation")
    /\ Confirmed
    /\ UNCHANGED <<credentials, schemas, attestations, mints, everCreated>>

\* Step 7: an authorized signer of the credential closes the attestation
CloseAttestation(authority, credential, attestation) ==
    /\ credential \in DOMAIN credentials
    /\ attestation \in DOMAIN attestations
    /\ attestations[attestation].credential = credential
    /\ authority \in Range(credentials[credential].authorizedSigners)
    /\ attestations' = Remove(attestations, attestation)
    /\ closedBy' = Put(closedBy, attestation, "CloseAttestation")
    /\ Confirmed
    /\ UNCHANGED <<credentials, schemas, mints, everCreated>>

\* a program that closes the attestation account and leaves the mint
CloseTokenizedAttestationKeepingMint(authority, credential, attestation, attestationMint, attestationTokenAccount) ==
    /\ credential \in DOMAIN credentials
    /\ attestation \in DOMAIN attestations
    /\ attestations[attestation].credential = credential
    /\ authority \in Range(credentials[credential].authorizedSigners)
    /\ attestationMint \in DOMAIN mints
    /\ attestationTokenAccount = attestations[attestation].tokenAccount
    /\ attestationTokenAccount =
           findAssociatedTokenPda(attestationMint, attestations[attestation].nonce)
    /\ attestations' = Remove(attestations, attestation)
    /\ closedBy' = Put(closedBy, attestation, "CloseTokenizedAttestation")
    /\ Confirmed
    /\ UNCHANGED <<credentials, schemas, mints, everCreated>>

\* a program that lets any wallet close a tokenized attestation
CloseTokenizedAttestationByAnyWallet(authority, credential, attestation, attestationMint, attestationTokenAccount) ==
    /\ credential \in DOMAIN credentials
    /\ attestation \in DOMAIN attestations
    /\ attestations[attestation].credential = credential
    /\ attestationMint \in DOMAIN mints
    /\ attestationTokenAccount = attestations[attestation].tokenAccount
    /\ attestationTokenAccount =
           findAssociatedTokenPda(attestationMint, attestations[attestation].nonce)
    /\ attestations' = Remove(attestations, attestation)
    /\ mints' = Remove(mints, attestationMint)
    /\ closedBy' = Put(closedBy, attestation, "CloseTokenizedAttestation")
    /\ Confirmed
    /\ UNCHANGED <<credentials, schemas, everCreated>>

\* Step 8: an authorized signer of the credential closes the tokenized
\* attestation; the token in attestationTokenAccount is burned and the
\* attestation mint closed in the same instruction
CloseTokenizedAttestation(authority, credential, attestation, attestationMint, attestationTokenAccount) ==
    /\ credential \in DOMAIN credentials
    /\ attestation \in DOMAIN attestations
    /\ attestations[attestation].credential = credential
    /\ authority \in Range(credentials[credential].authorizedSigners)
    /\ attestationMint \in DOMAIN mints
    /\ attestationTokenAccount = attestations[attestation].tokenAccount
    /\ attestationTokenAccount =
           findAssociatedTokenPda(attestationMint, attestations[attestation].nonce)
    /\ attestations' = Remove(attestations, attestation)
    /\ mints' = Remove(mints, attestationMint)
    /\ closedBy' = Put(closedBy, attestation, "CloseTokenizedAttestation")
    /\ Confirmed
    /\ UNCHANGED <<credentials, schemas, everCreated>>

(***************************************************************************)
(* Network Accessor: fetchSchema, fetchAttestation and fetchMint read one  *)
(* account; the read throws when the transport fails or when the address   *)
(* holds no account.                                                       *)
(***************************************************************************)
fetchAccount(accounts, address, rpcOk) ==
    IF ~rpcOk THEN Throw("RpcError")
    ELSE IF address \notin DOMAIN accounts THEN Throw("NotFound")
    ELSE Return(accounts[address])

fetchSchema(address, rpcOk) == fetchAccount(schemas, address, rpcOk)
fetchAttestation(address, rpcOk) == fetchAccount(attestations, address, rpcOk)
fetchMint(address, rpcOk) == fetchAccount(mints, address, rpcOk)

(***************************************************************************)
(* Attestation Verifier.                                                   *)
(***************************************************************************)
\* a handler that lets the error escape
TryRethrow(completion) == completion

\* catch (error) { return false; }
TryCatch(completion) ==
    IF completion.type = "throw" THEN Return(FALSE) ELSE completion

\* an async function fulfils its promise with the value returned and
\* rejects it with an error that escapes
Settle(completion) ==
    IF completion.type = "return"
    THEN [state |-> "fulfilled", value |-> completion.value]
    ELSE [state |-> "rejected", reason |-> completion.error]

\* a verifier that does not look at the pause flag
SchemaNeverInactive(account) == FALSE

\* if (schema.data.isPaused) return false
SchemaInactive(account) == account.isPaused

\* comparisons a slip would write in place of the strict one
NotExpiredReversed(currentTimestamp, expiry) == currentTimestamp > expiry
NotExpiredAlways(currentTimestamp, expiry) == TRUE
NotExpiredInclusive(currentTimestamp, expiry) == currentTimestamp <= expiry

\* currentTimestamp < attestation.data.expiry
NotExpired(currentTimestamp, expiry) == currentTimestamp < expiry

\* a verifier that compares the expiry without decoding the payload
CheckAttestationWithoutDecode(fetched, schemaAccount, ticks) ==
    IF fetched.type = "throw" THEN fetched
    ELSE Return(NotExpired(CurrentTimestamp(ticks), fetched.value.expiry))

\* verifyAttestation from the resolution of fetchAttestation to its return
CheckAttestation(fetched, schemaAccount, ticks) ==
    IF fetched.type = "throw" THEN fetched
    ELSE LET attestation == fetched.value
             attestationData ==
                 deserializeAttestationData(schemaAccount, attestation.data)
         IN  IF attestationData.type = "throw" THEN attestationData
             ELSE Return(NotExpired(CurrentTimestamp(ticks), attestation.expiry))

\* foundExtensions.find(ext => ext.__kind === kind)
Find(extensions, kind) ==
    LET hits == {i \in DOMAIN extensions : extensions[i].kind = kind}
    IN  IF hits = {} THEN None
        ELSE Some(extensions[CHOOSE i \in hits : \A j \in hits : i <= j])

\* a verifier that accepts membership of any group
GroupNeverDiffers(group, schemaMint) == FALSE

\* tokenGroupMember.group !== schemaMint
GroupDiffers(group, schemaMint) == group # schemaMint

\* a verifier that accepts every mint that carries extensions
CheckMintAcceptingAnyMint(fetched, schemaAddress, attestation) ==
    IF fetched.type = "throw" THEN fetched
    ELSE IF fetched.value.extensions.option = "None" THEN Return(FALSE)
    ELSE Return(TRUE)

\* a verifier that also rejects the token of an expired attestation
CheckMintWithExpiry(fetched, schemaAddress, attestation) ==
    IF fetched.type = "throw" THEN fetched
    ELSE LET mintAccount == fetched.value IN
         IF mintAccount.extensions.option = "None" THEN Return(FALSE)
         ELSE LET foundExtensions == mintAccount.extensions.value
                  schemaMint == deriveSchemaMintPda(schemaAddress)
                  tokenGroupMember == Find(foundExtensions, "TokenGroupMember")
                  tokenMetadata == Find(foundExtensions, "TokenMetadata")
              IN  IF tokenGroupMember.option = "None" THEN Return(FALSE)
                  ELSE IF GroupDiffers(tokenGroupMember.value.group, schemaMint)
                       THEN Return(FALSE)
                  ELSE IF tokenMetadata.option = "None" THEN Return(FALSE)
                  ELSE IF tokenMetadata.value.additionalMetadata.attestation
                              # attestation
                       THEN Return(FALSE)
                  ELSE IF tokenMetadata.value.additionalMetadata.schema
                              # schemaAddress
                       THEN Return(FALSE)
                  ELSE IF attestation \in DOMAIN attestations
                          /\ ~NotExpired(CurrentTimestamp(now),
                                         attestations[attestation].expiry)
                       THEN Return(FALSE)
                  ELSE Return(TRUE)

\* verifyTokenAttestation from the resolution of fetchMint to its return
CheckMint(fetched, schemaAddress, attestation) ==
    IF fetched.type = "throw" THEN fetched
    ELSE LET mintAccount == fetched.value IN
         IF mintAccount.extensions.option = "None" THEN Return(FALSE)
         ELSE LET foundExtensions == mintAccount.extensions.value
                  schemaMint == deriveSchemaMintPda(schemaAddress)
                  tokenGroupMember == Find(foundExtensions, "TokenGroupMember")
                  tokenMetadata == Find(foundExtensions, "TokenMetadata")
              IN  IF tokenGroupMember.option = "None" THEN Return(FALSE)
                  ELSE IF GroupDiffers(tokenGroupMember.value.group, schemaMint)
                       THEN Return(FALSE)
                  ELSE IF tokenMetadata.option = "None" THEN Return(FALSE)
                  ELSE IF tokenMetadata.value.additionalMetadata.attestation
                              # attestation
                       THEN Return(FALSE)
                  ELSE IF tokenMetadata.value.additionalMetadata.schema
                              # schemaAddress
                       THEN Return(FALSE)
                  ELSE Return(TRUE)

\* the condition behind a result: the error caught, or the check that failed
CauseOf(completion, check) ==
    IF completion.type = "throw" THEN completion.error
    ELSE IF completion.value = FALSE THEN check
    ELSE "none"

Functions == {"verifyAttestation", "verifyTokenAttestation"}

\* the caller starts a verification; the call suspends at fetchSchema
Call(f, address, user) ==
    /\ pc = "idle"
    /\ fn' = f
    /\ schemaPda' = address
    /\ userAddress' = user
    /\ pc' = "fetchSchema"
    /\ promise' = [state |-> "pending"]
    /\ cause' = "none"
    /\ stable' = TRUE
    /\ trace' = <<>>
    /\ UNCHANGED <<ledger, now, everCreated, closedBy, schema, attestationPda, background>>

\* an await the call came back from: what was awaited, whether the
\* transport answered, and whether the await resolved or rejected
Awaited(op, rpcOk, completion) ==
    [op |-> op, rpcOk |-> rpcOk, type |-> completion.type]

\* a verifier that closes the attestation it found expired
FinishAndClose(completion, check) ==
    /\ promise' = Settle(TryCatch(completion))
    /\ cause' = CauseOf(completion, check)
    /\ pc' = "done"
    /\ schema' = "none"
    /\ attestationPda' = "none"
    /\ attestations' = IF check = "Expired" /\ completion = Return(FALSE)
                       THEN Remove(attestations, attestationPda)
                       ELSE attestations
    /\ UNCHANGED <<credentials, schemas, mints, now, everCreated, closedBy, fn, schemaPda,
                   userAddress, stable>>

\* the call settles its promise and its locals go away
Finish(completion, check) ==
    /\ promise' = Settle(TryCatch(completion))
    /\ cause' = CauseOf(completion, check)
    /\ pc' = "done"
    /\ schema' = "none"
    /\ attestationPda' = "none"
    /\ UNCHANGED <<ledger, now, everCreated, closedBy, fn, schemaPda,
                   userAddress, stable>>

\* the call moves on to its next await
Continue(next, schemaAccount, attestation) ==
    /\ pc' = next
    /\ schema' = schemaAccount
    /\ attestationPda' = attestation
    /\ UNCHANGED <<ledger, now, everCreated, closedBy, fn, schemaPda,
                   userAddress, promise, cause, stable>>

\* a verifier that fetches the schema a second time when the first fetch fails
FetchSchemaReturnWithRetry(rpcOk) ==
    /\ pc = "fetchSchema"
    /\ LET fetched == fetchSchema(schemaPda, rpcOk) IN
       /\ trace' = Append(trace, Awaited("fetchSchema", rpcOk, fetched))
       /\ UNCHANGED background
       /\ IF fetched.type = "throw" /\ trace = <<>>
          THEN Continue("fetchSchema", schema, attestationPda)
          ELSE IF fetched.type = "throw" THEN Finish(fetched, "none")
          ELSE IF fn = "verifyAttestation" /\ SchemaInactive(fetched.value)
               THEN Finish(Return(FALSE), "Paused")
          ELSE Continue("deriveAttestationPda", fetched.value, attestationPda)

\* a verifier that goes on to the attestation before it tests isPaused
FetchSchemaReturnPauseAfterFetch(rpcOk) ==
    /\ pc = "fetchSchema"
    /\ LET fetched == fetchSchema(schemaPda, rpcOk) IN
       /\ trace' = Append(trace, Awaited("fetchSchema", rpcOk, fetched))
       /\ UNCHANGED background
       /\ IF fetched.type = "throw" THEN Finish(fetched, "none")
          ELSE Continue("deriveAttestationPda", fetched.value, attestationPda)

\* await fetchSchema resolves or rejects; verifyAttestation tests isPaused
FetchSchemaReturn(rpcOk) ==
    /\ pc = "fetchSchema"
    /\ LET fetched == fetchSchema(schemaPda, rpcOk) IN
       /\ trace' = Append(trace, Awaited("fetchSchema", rpcOk, fetched))
       /\ UNCHANGED background
       /\ IF fetched.type = "throw" THEN Finish(fetched, "none")
          ELSE IF fn = "verifyAttestation" /\ SchemaInactive(fetched.value)
               THEN Finish(Return(FALSE), "Paused")
          ELSE Continue("deriveAttestationPda", fetched.value, attestationPda)

\* await deriveAttestationPda resolves, or rejects for a nonce that is not
\* an address; the next fetch is issued
DeriveReturn ==
    /\ pc = "deriveAttestationPda"
    /\ trace' = Append(trace, Awaited("deriveAttestationPda", TRUE,
                                      IF IsAddress(userAddress) THEN Return("address")
                                      ELSE Throw("BadAddress")))
    /\ UNCHANGED background
    /\ IF ~IsAddress(userAddress) THEN Finish(Throw("BadAddress"), "none")
       ELSE Continue(IF fn = "verifyAttestation" THEN "fetchAttestation"
                     ELSE "fetchMint",
                     schema,
                     deriveAttestationPda(schema.credential, schemaPda, userAddress))

\* await fetchAttestation resolves or rejects; decode, compare, return
FetchAttestationReturn(rpcOk) ==
    /\ pc = "fetchAttestation"
    /\ trace' = Append(trace, Awaited("fetchAttestation", rpcOk,
                                      fetchAttestation(attestationPda, rpcOk)))
    /\ UNCHANGED background
    /\ Finish(CheckAttestation(fetchAttestation(attestationPda, rpcOk), schema, now),
              "Expired")

\* await fetchMint resolves or rejects; the extension checks, return
FetchMintReturn(rpcOk) ==
    /\ pc = "fetchMint"
    /\ trace' = Append(trace, Awaited("fetchMint", rpcOk,
               fetchMint(deriveAttestationMintPda(attestationPda), rpcOk)))
    /\ UNCHANGED background
    /\ Finish(CheckMint(fetchMint(deriveAttestationMintPda(attestationPda), rpcOk),
                        schemaPda, attestationPda),
              "Structure")

\* the caller takes the result
Resume ==
    /\ pc = "done"
    /\ pc' = "idle"
    /\ fn' = "none"
    /\ schemaPda' = "none"
    /\ userAddress' = "none"
    /\ promise' = [state |-> "none"]
    /\ cause' = "none"
    /\ stable' = TRUE
    /\ trace' = <<>>
    /\ UNCHANGED <<ledger, now, everCreated, closedBy, schema, attestationPda, background>>

Next ==
    \/ Tick
    \/ \E a \in Issuers, l \in SignerLists : CreateCredential(a, CREDENTIAL_NAME, l)
    \/ \E a \in Issuers, c \in CredentialAddrs, v \in SchemaVersions :
           CreateSchema(a, c, SCHEMA_NAME, v, SCHEMA_LAYOUT, SCHEMA_FIELDS)
    \/ \E a \in Issuers, s \in SchemaAddrs, p \in BOOLEAN : ChangeSchemaStatus(a, s, p)
    \/ \E a \in Issuers, c \in CredentialAddrs, s \in SchemaAddrs : TokenizeSchema(a, c, s)
    \/ \E a \in AuthorizedSignerWallets, c \in CredentialAddrs, s \in SchemaAddrs,
          u \in Users, e \in ExpiryChoices, d \in PayloadChoices :
           CreateAttestation(a, c, s, u, e, d)
    \/ \E a \in AuthorizedSignerWallets, c \in CredentialAddrs, s \in SchemaAddrs,
          m \in DOMAIN mints, u \in Users, e \in ExpiryChoices,
          d \in PayloadChoices :
           CreateTokenizedAttestation(a, c, s, m, u, e, d)
    \/ \E f \in Functions, s \in SchemaAddrs, u \in UserInputs : Call(f, s, u)
    \/ \E ok \in BOOLEAN : FetchSchemaReturn(ok)
    \/ DeriveReturn
    \/ \E ok \in BOOLEAN : FetchAttestationReturn(ok)
    \/ \E ok \in BOOLEAN : FetchMintReturn(ok)
    \/ Resume

Spec == Init /\ [][Next]_vars

(***************************************************************************)
(* The two verification functions from call to return, as they run when    *)
(* nothing else runs between their awaits.                                 *)
(***************************************************************************)
verifyAttestation(address, user, okSchema, okAttestation, ticks) ==
    LET fetched == fetchSchema(address, okSchema) IN
    TryCatch(
        IF fetched.type = "throw" THEN fetched
        ELSE IF SchemaInactive(fetched.value) THEN Return(FALSE)
        ELSE IF ~IsAddress(user) THEN Throw("BadAddress")
        ELSE CheckAttestation(
                 fetchAttestation(
                     deriveAttestationPda(fetched.value.credential, address, user),
                     okAttestation),
                 fetched.value, ticks))

verifyTokenAttestation(address, user, okSchema, okMint) ==
    LET fetched == fetchSchema(address, okSchema) IN
    TryCatch(
        IF fetched.type = "throw" THEN fetched
        ELSE IF ~IsAddress(user) THEN Throw("BadAddress")
        ELSE LET attestation ==
                     deriveAttestationPda(fetched.value.credential, address, user)
             IN  CheckMint(fetchMint(deriveAttestationMintPda(attestation), okMint),
                           address, attestation))

(***************************************************************************)
(* A second verification, run by the same caller while the first is in     *)
(* flight (or after it): the same steps on locals of its own.  While any   *)
(* verification is in flight the ledger and the clock stay as they are.    *)
(***************************************************************************)
PeerCall(f, address, user) ==
    /\ peer.pc = "idle"
    /\ peer' = [pc |-> "fetchSchema", fn |-> f, schemaPda |-> address,
                userAddress |-> user, schema |-> "none",
                attestationPda |-> "none", promise |-> [state |-> "pending"],
                trace |-> <<>>]
    /\ UNCHANGED <<ledger, now, everCreated, closedBy, callVars, stable, deriver, bystanders>>

PeerFinish(awaited, completion) ==
    /\ peer' = [peer EXCEPT !.pc = "done",
                            !.promise = Settle(TryCatch(completion)),
                            !.schema = "none",
                            !.attestationPda = "none",
                            !.trace = Append(peer.trace, awaited)]
    /\ UNCHANGED <<ledger, now, everCreated, closedBy, callVars, stable, deriver, bystanders>>

\* locals declared outside the function: both calls write the same ones
PeerContinueSharedLocals(awaited, next, schemaAccount, attestation) ==
    /\ peer' = [peer EXCEPT !.pc = next,
                            !.schema = schemaAccount,
                            !.attestationPda = attestation,
                            !.trace = Append(peer.trace, awaited)]
    /\ schema' = schemaAccount
    /\ attestationPda' = IF next = "deriveAttestationPda" THEN attestationPda
                         ELSE attestation
    /\ UNCHANGED <<ledger, now, everCreated, closedBy, fn, schemaPda, userAddress, pc,
                   promise, cause, trace, stable, deriver, bystanders>>

PeerContinue(awaited, next, schemaAccount, attestation) ==
    /\ peer' = [peer EXCEPT !.pc = next,
                            !.schema = schemaAccount,
                            !.attestationPda = attestation,
                            !.trace = Append(peer.trace, awaited)]
    /\ UNCHANGED <<ledger, now, everCreated, closedBy, callVars, stable, deriver, bystanders>>

PeerFetchSchemaReturn(rpcOk) ==
    /\ peer.pc = "fetchSchema"
    /\ LET fetched == fetchSchema(peer.schemaPda, rpcOk)
           awaited == Awaited("fetchSchema", rpcOk, fetched)
       IN  IF fetched.type = "throw" THEN PeerFinish(awaited, fetched)
           ELSE IF peer.fn = "verifyAttestation" /\ SchemaInactive(fetched.value)
                THEN PeerFinish(awaited, Return(FALSE))
           ELSE PeerContinue(awaited, "deriveAttestationPda", fetched.value,
                             peer.attestationPda)

PeerDeriveReturn ==
    /\ peer.pc = "deriveAttestationPda"
    /\ IF ~IsAddress(peer.userAddress)
       THEN PeerFinish(Awaited("deriveAttestationPda", TRUE, Throw("BadAddress")),
                       Throw("BadAddress"))
       ELSE PeerContinue(Awaited("deriveAttestationPda", TRUE, Return("address")),
                         IF peer.fn = "verifyAttestation" THEN "fetchAttestation"
                         ELSE "fetchMint",
                         peer.schema,
                         deriveAttestationPda(peer.schema.credential,
                                              peer.schemaPda, peer.userAddress))

PeerFetchAttestationReturn(rpcOk) ==
    /\ peer.pc = "fetchAttestation"
    /\ LET fetched == fetchAttestation(peer.attestationPda, rpcOk) IN
       PeerFinish(Awaited("fetchAttestation", rpcOk, fetched),
                  CheckAttestation(fetched, peer.schema, now))

PeerFetchMintReturn(rpcOk) ==
    /\ peer.pc = "fetchMint"
    /\ LET fetched == fetchMint(deriveAttestationMintPda(peer.attestationPda), rpcOk)
       IN  PeerFinish(Awaited("fetchMint", rpcOk, fetched),
                      CheckMint(fetched, peer.schemaPda, peer.attestationPda))

PeerResume ==
    /\ peer.pc = "done"
    /\ peer' = PeerIdle
    /\ UNCHANGED <<ledger, now, everCreated, closedBy, callVars, stable, deriver, bystanders>>

NoCallInFlight == pc = "idle" /\ peer.pc = "idle"

NextConcurrent ==
    \/ NoCallInFlight /\ Tick
    \/ NoCallInFlight /\ \E a \in Issuers, l \in SignerLists :
                             CreateCredential(a, CREDENTIAL_NAME, l)
    \/ NoCallInFlight /\ \E a \in Issuers, c \in CredentialAddrs, v \in SchemaVersions :
                             CreateSchema(a, c, SCHEMA_NAME, v, SCHEMA_LAYOUT, SCHEMA_FIELDS)
    \/ NoCallInFlight /\ \E a \in Issuers, s \in SchemaAddrs, p \in BOOLEAN :
                             ChangeSchemaStatus(a, s, p)
    \/ NoCallInFlight /\ \E a \in Issuers, c \in CredentialAddrs, s \in SchemaAddrs :
                             TokenizeSchema(a, c, s)
    \/ NoCallInFlight /\ \E a \in AuthorizedSignerWallets, c \in CredentialAddrs,
                             s \in SchemaAddrs, u \in Users, e \in ExpiryChoices,
                             d \in PayloadChoices :
                             CreateAttestation(a, c, s, u, e, d)
    \/ NoCallInFlight /\ \E a \in AuthorizedSignerWallets, c \in CredentialAddrs,
                             s \in SchemaAddrs, m \in DOMAIN mints, u \in Users,
                             e \in ExpiryChoices, d \in PayloadChoices :
                             CreateTokenizedAttestation(a, c, s, m, u, e, d)
    \/ \E f \in Functions, s \in SchemaAddrs, u \in UserInputs : Call(f, s, u)
    \/ \E ok \in BOOLEAN : FetchSchemaReturn(ok)
    \/ DeriveReturn
    \/ \E ok \in BOOLEAN : FetchAttestationReturn(ok)
    \/ \E ok \in BOOLEAN : FetchMintReturn(ok)
    \/ Resume
    \/ \E f \in Functions, s \in SchemaAddrs, u \in Users : PeerCall(f, s, u)
    \/ \E ok \in BOOLEAN : PeerFetchSchemaReturn(ok)
    \/ PeerDeriveReturn
    \/ \E ok \in BOOLEAN : PeerFetchAttestationReturn(ok)
    \/ \E ok \in BOOLEAN : PeerFetchMintReturn(ok)
    \/ PeerResume

SpecConcurrent == Init /\ [][NextConcurrent]_vars

(***************************************************************************)
(* The ledger on its own: every transaction of the guides, signed by any   *)
(* of the wallets, with no verification running.                           *)
(***************************************************************************)
Wallets == Issuers \cup AuthorizedSignerWallets

NextLedger ==
    \/ \E a \in Issuers, l \in SignerLists : CreateCredential(a, CREDENTIAL_NAME, l)
    \/ \E a \in Wallets, c \in CredentialAddrs, v \in SchemaVersions :
           CreateSchema(a, c, SCHEMA_NAME, v, SCHEMA_LAYOUT, SCHEMA_FIELDS)
    \/ \E a \in Wallets, s \in SchemaAddrs, p \in BOOLEAN : ChangeSchemaStatus(a, s, p)
    \/ \E a \in Wallets, c \in CredentialAddrs, s \in SchemaAddrs : TokenizeSchema(a, c, s)
    \/ \E a \in Wallets, c \in CredentialAddrs, s \in SchemaAddrs,
          u \in Users, e \in ExpiryChoices, d \in PayloadChoices :
           CreateAttestation(a, c, s, u, e, d)
    \/ \E a \in Wallets, c \in CredentialAddrs, s \in SchemaAddrs,
          u \in Users, e \in ExpiryChoices, d \in PayloadChoices :
           \E m \in DOMAIN mints \cup {deriveSchemaMintPda(s)} :
               CreateTokenizedAttestation(a, c, s, m, u, e, d)
    \/ \E a \in Wallets, c \in CredentialAddrs, l \in SignerListChoices :
           ChangeAuthorizedSigners(a, c, l)
    \/ \E a \in Wallets, c \in CredentialAddrs, t \in DOMAIN attestations :
           CloseAttestation(a, c, t)
    \/ \E a \in Wallets, c \in CredentialAddrs, t \in DOMAIN attestations,
          m \in DOMAIN mints :
           CloseTokenizedAttestation(a, c, t, m, attestations[t].tokenAccount)

SpecLedger == Init /\ [][NextLedger]_vars

(***************************************************************************)
(* Revocation: the issuer's transactions and the verifications of main,    *)
(* with the authorized signers closing attestations as in the last step of *)
(* each guide.                                                             *)
(***************************************************************************)
NextRevoke ==
    \/ Tick
    \/ \E a \in Issuers, l \in SignerLists : CreateCredential(a, CREDENTIAL_NAME, l)
    \/ \E a \in Issuers, c \in CredentialAddrs, v \in SchemaVersions :
           CreateSchema(a, c, SCHEMA_NAME, v, SCHEMA_LAYOUT, SCHEMA_FIELDS)
    \/ \E a \in Issuers, s \in SchemaAddrs, p \in BOOLEAN : ChangeSchemaStatus(a, s, p)
    \/ \E a \in Issuers, c \in CredentialAddrs, s \in SchemaAddrs : TokenizeSchema(a, c, s)
    \/ \E a \in AuthorizedSignerWallets, c \in CredentialAddrs, s \in SchemaAddrs,
          u \in Users, e \in ExpiryChoices :
           CreateAttestation(a, c, s, u, e, ATTESTATION_DATA_BYTES)
    \/ \E a \in AuthorizedSignerWallets, c \in CredentialAddrs, s \in SchemaAddrs,
          u \in Users, e \in ExpiryChoices :
           CreateTokenizedAttestation(a, c, s, deriveSchemaMintPda(s), u, e,
                                      ATTESTATION_DATA_BYTES)
    \/ \E f \in Functions, s \in SchemaAddrs, u \in UserInputs : Call(f, s, u)
    \/ \E ok \in BOOLEAN : FetchSchemaReturn(ok)
    \/ DeriveReturn
    \/ \E ok \in BOOLEAN : FetchAttestationReturn(ok)
    \/ \E ok \in BOOLEAN : FetchMintReturn(ok)
    \/ Resume
    \/ \E a \in AuthorizedSignerWallets, c \in CredentialAddrs,
          t \in DOMAIN attestations :
           CloseAttestation(a, c, t)
    \/ \E a \in AuthorizedSignerWallets, c \in CredentialAddrs,
          t \in DOMAIN attestations, m \in DOMAIN mints :
           CloseTokenizedAttestation(a, c, t, m, attestations[t].tokenAccount)

SpecRevoke == Init /\ [][NextRevoke]_vars

(***************************************************************************)
(* The Address Deriver called on its own: a caller holds an authority and  *)
(* two names and derives the credential addresses, or the schema addresses *)
(* under one credential and version, of both names.                        *)
(***************************************************************************)
Repeat(byte, n) == [i \in 1 .. n |-> byte]

\* names shorter than a seed, as long as a seed, and longer: two that share
\* their first MaxSeedLen bytes and one that differs from them inside
DeriverNames ==
    { CREDENTIAL_NAME, SCHEMA_NAME,
      Repeat(65, MaxSeedLen),
      Repeat(65, MaxSeedLen) \o <<66>>,
      Repeat(65, MaxSeedLen) \o <<67, 68>>,
      Repeat(65, MaxSeedLen - 1) \o <<66, 66>> }
DeriverAuthorities == Issuers \cup AuthorizedSignerWallets

InitDeriver ==
    /\ credentials = EmptyMap
    /\ schemas = EmptyMap
    /\ attestations = EmptyMap
    /\ mints = EmptyMap
    /\ now = 0
    /\ everCreated = {}
    /\ closedBy = EmptyMap
    /\ fn = "none"
    /\ schemaPda = "none"
    /\ userAddress = "none"
    /\ pc = "idle"
    /\ schema = "none"
    /\ attestationPda = "none"
    /\ promise = [state |-> "none"]
    /\ cause = "none"
    /\ stable = TRUE
    /\ trace = <<>>
    /\ peer = PeerIdle
    /\ deriver \in {[pc |-> "ready", authority |-> a, nameA |-> n1, nameB |-> n2] :
                       a \in DeriverAuthorities, n1 \in DeriverNames,
                       n2 \in DeriverNames}
    /\ codec = CodecIdle
    /\ main = MainIdle
    /\ workflow = NoRuns

Derived(kind, addressA, addressB) ==
    /\ deriver.pc = "ready"
    /\ deriver' = [pc |-> kind, authority |-> deriver.authority,
                   nameA |-> deriver.nameA, nameB |-> deriver.nameB,
                   addressA |-> addressA, addressB |-> addressB]
    /\ UNCHANGED <<ledger, now, everCreated, closedBy, callVars, stable, peer, bystanders>>

DeriveCredentials ==
    Derived("credential",
            deriveCredentialPda(deriver.authority, deriver.nameA),
            deriveCredentialPda(deriver.authority, deriver.nameB))

DeriveSchemas ==
    LET credential == deriveCredentialPda(deriver.authority, CREDENTIAL_NAME) IN
    Derived("schema",
            deriveSchemaPda(credential, deriver.nameA, SCHEMA_VERSION),
            deriveSchemaPda(credential, deriver.nameB, SCHEMA_VERSION))

NextDeriver ==
    \/ DeriveCredentials
    \/ DeriveSchemas

SpecDeriver == InitDeriver /\ [][NextDeriver]_vars

(***************************************************************************)
(* The attestation data codec called on its own: Step 4 serializes the     *)
(* data under the schema, verifyAttestation deserializes the bytes of the  *)
(* attestation account.                                                    *)
(***************************************************************************)
\* the schema of the demo as fetchSchema returns it
DemoSchema == [layout |-> SCHEMA_LAYOUT, fieldNames |-> SCHEMA_FIELDS]

\* the field values the codec is tried on
CodecStrings ==
    { <<>>, <<65>>, <<3, 0, 0, 0>>, ATTESTATION_DATA.name, ATTESTATION_DATA.country }
CodecAges == {0, 3, ATTESTATION_DATA.age, 255}

InitCodec ==
    /\ credentials = EmptyMap
    /\ schemas = EmptyMap
    /\ attestations = EmptyMap
    /\ mints = EmptyMap
    /\ now = 0
    /\ everCreated = {}
    /\ closedBy = EmptyMap
    /\ fn = "none"
    /\ schemaPda = "none"
    /\ userAddress = "none"
    /\ pc = "idle"
    /\ schema = "none"
    /\ attestationPda = "none"
    /\ promise = [state |-> "none"]
    /\ cause = "none"
    /\ stable = TRUE
    /\ trace = <<>>
    /\ peer = PeerIdle
    /\ deriver = DeriverIdle
    /\ codec \in {[pc |-> "ready", data |-> [name |-> n, age |-> a, country |-> c]] :
                     n \in CodecStrings, a \in CodecAges, c \in CodecStrings}
    /\ main = MainIdle
    /\ workflow = NoRuns

\* data: serializeAttestationData(schema.data, CONFIG.ATTESTATION_DATA)
Serialize ==
    /\ codec.pc = "ready"
    /\ codec' = [pc |-> "serialized", data |-> codec.data,
                 bytes |-> serializeAttestationData(DemoSchema, codec.data)]
    /\ UNCHANGED <<ledger, now, everCreated, closedBy, callVars, stable, peer,
                   deriver, main, workflow>>

\* deserializeAttestationData(schema.data, attestation.data.data)
Deserialize ==
    /\ codec.pc = "serialized"
    /\ codec' = [pc |-> "deserialized", data |-> codec.data, bytes |-> codec.bytes,
                 result |-> deserializeAttestationData(DemoSchema, codec.bytes)]
    /\ UNCHANGED <<ledger, now, everCreated, closedBy, callVars, stable, peer,
                   deriver, main, workflow>>

NextCodec ==
    \/ Serialize
    \/ Deserialize

SpecCodec == InitCodec /\ [][NextCodec]_vars

(***************************************************************************)
(* The demo scripts of the two guides: main runs its steps, each           *)
(* transaction through sendAndConfirmInstructions, on the ledger above.    *)
(***************************************************************************)
Scripts == {"credentials", "tokenized"}

MainSteps(script) ==
    IF script = "credentials"
    THEN <<"setupWallets", "createCredential", "createSchema", "createAttestation",
           "changeAuthorizedSigners", "verifyAttestations", "closeAttestation">>
    ELSE <<"setupWallets", "createCredential", "createSchema", "tokenizeSchema",
           "createTokenizedAttestation", "verifyAttestations",
           "verifyAttestationToken", "closeTokenizedAttestation">>

\* console.log at the start of each step
Header(step) ==
    CASE step = "setupWallets" -> "1. Setting up wallets and funding payer..."
      [] step = "createCredential" -> "2. Creating Credential..."
      [] step = "createSchema" -> "3.  Creating Schema..."
      [] step = "createAttestation" -> "4. Creating Attestation..."
      [] step = "changeAuthorizedSigners" -> "5. Updating Authorized Signers..."
      [] step = "verifyAttestations" -> "6. Verifying Attestations..."
      [] step = "closeAttestation" -> "7. Closing Attestation..."
      [] step = "tokenizeSchema" -> "4. Tokenizing Schema..."
      [] step = "createTokenizedAttestation" -> "5. Creating Tokenized Attestation..."
      [] step = "verifyAttestationToken" -> "7. Verifying Attestation Token..."
      [] step = "closeTokenizedAttestation" -> "8. Closing Tokenized Attestations..."

\* the description main passes to sendAndConfirmInstructions
Description(step) ==
    CASE step = "createCredential" -> "Credential created"
      [] step = "createSchema" -> "Schema created"
      [] step = "createAttestation" -> "Attestation created"
      [] step = "changeAuthorizedSigners" -> "Authorized signers updated"
      [] step = "closeAttestation" -> "Closed attestation"
      [] step = "tokenizeSchema" -> "Schema tokenized"
      [] step = "createTokenizedAttestation" -> "Tokenized attestation created"
      [] step = "closeTokenizedAttestation" -> "Tokenized Attestation closed"

TransactionSteps ==
    {"createCredential", "createSchema", "createAttestation",
     "changeAuthorizedSigners", "closeAttestation", "tokenizeSchema",
     "createTokenizedAttestation", "closeTokenizedAttestation"}

\* the first await of a step
FirstAwait(script, step) ==
    CASE step = "setupWallets" -> "airdrop"
      [] step \in {"createAttestation", "createTokenizedAttestation"} -> "fetchSchema"
      [] step = "verifyAttestations" -> "verifyAttestation(testUser)"
      [] step = "verifyAttestationToken" -> "verifyTokenAttestation(testUser)"
      [] OTHER -> "estimateCompute"

SUCCESS_MESSAGE == "Solana Attestation Service demo completed successfully!"
FAILURE_MESSAGE == "Demo failed:"

\* the accounts of the demo
MainCredentialPda == deriveCredentialPda("issuer", CREDENTIAL_NAME)
MainSchemaPda == deriveSchemaPda(MainCredentialPda, SCHEMA_NAME, SCHEMA_VERSION)
MainAttestationPda == deriveAttestationPda(MainCredentialPda, MainSchemaPda, "testUser")
MainSchemaMint == deriveSchemaMintPda(MainSchemaPda)
MainAttestationMint == deriveAttestationMintPda(MainAttestationPda)

\* signers: of Step 2 in each guide
MainSigners(script) ==
    IF script = "credentials" THEN <<"authorizedSigner1">>
    ELSE <<"authorizedSigner1", "authorizedSigner2">>

\* main has caught or thrown nothing
NoError == <<>>

\* main suspended at an await of a step
At(step, awaited) ==
    main.pc = "running" /\ main.step = step /\ main.await = awaited

MainUnchanged ==
    UNCHANGED <<ledger, now, everCreated, closedBy, callVars, stable, peer,
                deriver, codec, workflow>>

\* main goes on to a step: its header is logged and its first await begins
Enter(script, step, log) ==
    /\ main' = [pc |-> "running", script |-> script, step |-> step,
                await |-> FirstAwait(script, step),
                log |-> Append(log, Header(step)), error |-> NoError,
                exitCode |-> "none"]
    /\ MainUnchanged

\* main returns: its promise is fulfilled
MainReturns(log) ==
    /\ main' = [main EXCEPT !.pc = "fulfilled", !.await = "none", !.log = log]
    /\ MainUnchanged

\* after the last statement of a step
Leave(step, log) ==
    LET steps == MainSteps(main.script)
        i == CHOOSE j \in DOMAIN steps : steps[j] = step
    IN  IF i < Len(steps) THEN Enter(main.script, steps[i + 1], log)
        ELSE MainReturns(log)

\* an error thrown inside main, which has no try block: its promise is rejected
MainThrows(error) ==
    /\ main' = [main EXCEPT !.pc = "rejected", !.await = "none", !.error = error]
    /\ MainUnchanged

\* description.toLowerCase() for the descriptions main passes
toLowerCase(description) ==
    CASE description = "Credential created" -> "credential created"
      [] description = "Schema created" -> "schema created"
      [] description = "Attestation created" -> "attestation created"
      [] description = "Authorized signers updated" -> "authorized signers updated"
      [] description = "Closed attestation" -> "closed attestation"
      [] description = "Schema tokenized" -> "schema tokenized"
      [] description = "Tokenized attestation created" -> "tokenized attestation created"
      [] description = "Tokenized Attestation closed" -> "tokenized attestation closed"

\* a sendAndConfirmInstructions whose catch block logs the error and returns
SendAndConfirmCatchSwallowing(step, error) ==
    Leave(step, Append(main.log, "Failed to " \o toLowerCase(Description(step))))

\* the catch block of sendAndConfirmInstructions: throw new Error(...)
SendAndConfirmCatch(step, error) ==
    MainThrows(<<"Failed to " \o toLowerCase(Description(step)), error>>)

MainStart(script) ==
    /\ main.pc = "idle"
    /\ Enter(script, MainSteps(script)[1],
             <<"Starting Solana Attestation Service Demo">>)

\* Step 1: setupWallets airdrops to the payer; its catch block rethrows
SetupWallets(rpcOk) ==
    /\ At("setupWallets", "airdrop")
    /\ IF rpcOk THEN Leave("setupWallets", Append(main.log, "Airdrop completed"))
       ELSE MainThrows(<<"Failed to setup wallets", "airdrop">>)

\* Steps 4 and 5: const schema = await fetchSchema(client.rpc, schemaPda)
MainFetchSchema(rpcOk) ==
    /\ main.pc = "running"
    /\ main.await = "fetchSchema"
    /\ LET fetched == fetchSchema(MainSchemaPda, rpcOk) IN
       IF fetched.type = "throw" THEN MainThrows(<<fetched.error>>)
       ELSE /\ main' = [main EXCEPT !.await = "estimateCompute"]
            /\ MainUnchanged

\* sendAndConfirmInstructions: await estimateCompute(simulationTx)
EstimateCompute(rpcOk) ==
    /\ main.pc = "running"
    /\ main.await = "estimateCompute"
    /\ IF rpcOk THEN /\ main' = [main EXCEPT !.await = "getLatestBlockhash"]
                     /\ MainUnchanged
       ELSE SendAndConfirmCatch(main.step, "estimateCompute")

\* sendAndConfirmInstructions: await client.rpc.getLatestBlockhash().send()
GetLatestBlockhash(rpcOk) ==
    /\ main.pc = "running"
    /\ main.await = "getLatestBlockhash"
    /\ IF rpcOk THEN /\ main' = [main EXCEPT !.await = "sendAndConfirmTransaction"]
                     /\ MainUnchanged
       ELSE SendAndConfirmCatch(main.step, "getLatestBlockhash")

\* the transaction of a step has been processed by the program
Landed(step) ==
    CASE step = "createCredential" -> MainCredentialPda \in DOMAIN credentials
      [] step = "createSchema" -> MainSchemaPda \in DOMAIN schemas
      [] step \in {"createAttestation", "createTokenizedAttestation"} ->
             MainAttestationPda \in DOMAIN attestations
      [] step = "changeAuthorizedSigners" ->
             credentials[MainCredentialPda].authorizedSigners
                 = <<"authorizedSigner1", "authorizedSigner2">>
      [] step = "tokenizeSchema" -> MainSchemaMint \in DOMAIN mints
      [] step \in {"closeAttestation", "closeTokenizedAttestation"} ->
             MainAttestationPda \notin DOMAIN attestations

\* the transaction main is waiting for reaches the program
Process(step) ==
    /\ At(step, "sendAndConfirmTransaction")
    /\ ~Landed(step)

\* sendAndConfirmInstructions: client.sendAndConfirmTransaction(tx) resolves;
\* the signature is logged and main goes on
TransactionConfirmed ==
    /\ main.pc = "running"
    /\ main.await = "sendAndConfirmTransaction"
    /\ Landed(main.step)
    /\ Leave(main.step, Append(main.log, Description(main.step)))

\* client.sendAndConfirmTransaction(tx) rejects
TransactionFailed ==
    /\ main.pc = "running"
    /\ main.await = "sendAndConfirmTransaction"
    /\ SendAndConfirmCatch(main.step, "sendAndConfirmTransaction")

\* the line a verification logs
Verdict(who, isVerified) ==
    who \o " is " \o (IF isVerified THEN "verified" ELSE "not verified")

\* Step 6: verifyAttestation for testUser, and in the credentials guide for
\* a randomUser as well
VerifyTestUser(okSchema, okAttestation) ==
    LET isUserVerified ==
            verifyAttestation(MainSchemaPda, "testUser", okSchema, okAttestation, now)
        log == Append(main.log, Verdict("Test User", isUserVerified.value))
    IN  /\ At("verifyAttestations", "verifyAttestation(testUser)")
        /\ IF isUserVerified.type = "throw" THEN MainThrows(<<isUserVerified.error>>)
           ELSE IF main.script = "credentials"
           THEN /\ main' = [main EXCEPT !.await = "verifyAttestation(randomUser)",
                                        !.log = log]
                /\ MainUnchanged
           ELSE Leave("verifyAttestations", log)

VerifyRandomUser(okSchema, okAttestation) ==
    LET isRandomVerified ==
            verifyAttestation(MainSchemaPda, "randomUser", okSchema, okAttestation, now)
    IN  /\ At("verifyAttestations", "verifyAttestation(randomUser)")
        /\ IF isRandomVerified.type = "throw"
           THEN MainThrows(<<isRandomVerified.error>>)
           ELSE Leave("verifyAttestations",
                      Append(main.log, Verdict("Random User", isRandomVerified.value)))

\* Step 7 of the tokenized guide
VerifyToken(okSchema, okMint) ==
    LET isTokenVerified ==
            verifyTokenAttestation(MainSchemaPda, "testUser", okSchema, okMint)
    IN  /\ At("verifyAttestationToken", "verifyTokenAttestation(testUser)")
        /\ IF isTokenVerified.type = "throw" THEN MainThrows(<<isTokenVerified.error>>)
           ELSE Leave("verifyAttestationToken",
                      Append(main.log, Verdict("Test User's token", isTokenVerified.value)))

\* main().then(() => console.log(...)); the process then ends on its own
MainThen ==
    /\ main.pc = "fulfilled"
    /\ main' = [main EXCEPT !.pc = "exited", !.log = Append(@, SUCCESS_MESSAGE),
                            !.exitCode = 0]
    /\ MainUnchanged

\* .catch((error) => { console.error(...); process.exit(1); })
MainCatch ==
    /\ main.pc = "rejected"
    /\ main' = [main EXCEPT !.pc = "exited", !.log = Append(@, FAILURE_MESSAGE),
                            !.exitCode = 1]
    /\ MainUnchanged

NextMain ==
    \/ \E script \in Scripts : MainStart(script)
    \/ \E ok \in BOOLEAN : SetupWallets(ok)
    \/ \E ok \in BOOLEAN : MainFetchSchema(ok)
    \/ \E ok \in BOOLEAN : EstimateCompute(ok)
    \/ \E ok \in BOOLEAN : GetLatestBlockhash(ok)
    \/ /\ Process("createCredential")
       /\ CreateCredential("issuer", CREDENTIAL_NAME, MainSigners(main.script))
    \/ /\ Process("createSchema")
       /\ CreateSchema("issuer", MainCredentialPda, SCHEMA_NAME, SCHEMA_VERSION,
                       SCHEMA_LAYOUT, SCHEMA_FIELDS)
    \/ /\ Process("createAttestation")
       /\ CreateAttestation("authorizedSigner1", MainCredentialPda, MainSchemaPda,
                            "testUser", ExpiryTimestamp(now),
                            serializeAttestationData(DemoSchema, ATTESTATION_DATA))
    \/ /\ Process("changeAuthorizedSigners")
       /\ ChangeAuthorizedSigners("issuer", MainCredentialPda,
                                  <<"authorizedSigner1", "authorizedSigner2">>)
    \/ /\ Process("closeAttestation")
       /\ CloseAttestation("authorizedSigner1", MainCredentialPda, MainAttestationPda)
    \/ /\ Process("tokenizeSchema")
       /\ TokenizeSchema("issuer", MainCredentialPda, MainSchemaPda)
    \/ /\ Process("createTokenizedAttestation")
       /\ CreateTokenizedAttestation(
              "authorizedSigner1", MainCredentialPda, MainSchemaPda, MainSchemaMint,
              "testUser", ExpiryTimestamp(now),
              serializeAttestationData(DemoSchema, ATTESTATION_DATA))
    \/ /\ Process("closeTokenizedAttestation")
       /\ CloseTokenizedAttestation(
              "authorizedSigner1", MainCredentialPda, MainAttestationPda,
              MainAttestationMint,
              findAssociatedTokenPda(MainAttestationMint, "testUser"))
    \/ TransactionConfirmed
    \/ TransactionFailed
    \/ \E okSchema \in BOOLEAN, okAttestation \in BOOLEAN :
           VerifyTestUser(okSchema, okAttestation)
    \/ \E okSchema \in BOOLEAN, okAttestation \in BOOLEAN :
           VerifyRandomUser(okSchema, okAttestation)
    \/ \E okSchema \in BOOLEAN, okMint \in BOOLEAN : VerifyToken(okSchema, okMint)
    \/ MainThen
    \/ MainCatch

SpecMain == Init /\ [][NextMain]_vars

(***************************************************************************)
(* The Sanity Studio workflow (.github/workflows/studio.yaml): the runs of *)
(* the workflow in the order they were triggered.                          *)
(***************************************************************************)
MaxRuns == 4

WorkflowName == "Sanity Studio"

\* on.push.branches
Branches == {"refs/heads/main", "refs/heads/development"}

\* the refs pushed to: the two branches of the filter and one outside it
Refs == Branches \cup {"refs/heads/feature"}

\* files a push changes, one inside and one outside on.push.paths
ChangedFiles == {"src/shared/sanity/schemas/post.ts", "README.md"}

\* on.push.paths: src/shared/sanity/**/*
MatchesPaths(file) == file = "src/shared/sanity/schemas/post.ts"

\* concurrency.group: ${{ github.workflow }}-${{ github.ref }}
group(ref) == WorkflowName \o "-" \o ref

\* jobs.studio.environment.name
environment(ref) == IF ref = "refs/heads/main" THEN "Production" ELSE "staging"

InProgress(i) == workflow[i].status = "in_progress"

WorkflowUnchanged ==
    UNCHANGED <<ledger, now, everCreated, closedBy, callVars, stable, peer,
                deriver, codec, main>>

\* a run of the workflow on the pushed ref
Run(ref) ==
    [ref |-> ref, group |-> group(ref), environment |-> environment(ref),
     status |-> "in_progress"]

\* a push with a concurrency block that lacks cancel-in-progress and starts
\* the new run beside the old one
pushWithoutCancelInProgress(ref, file) ==
    /\ Len(workflow) < MaxRuns
    /\ ref \in Branches
    /\ MatchesPaths(file)
    /\ workflow' = Append(workflow, Run(ref))
    /\ WorkflowUnchanged

\* a push: it triggers a run when the branch and a changed path match, and
\* cancel-in-progress cancels the run of the same group still in progress
push(ref, file) ==
    /\ Len(workflow) < MaxRuns
    /\ ref \in Branches
    /\ MatchesPaths(file)
    /\ workflow' =
           Append([i \in DOMAIN workflow |->
                      IF InProgress(i) /\ workflow[i].group = group(ref)
                      THEN [workflow[i] EXCEPT !.status = "cancelled"]
                      ELSE workflow[i]],
                  Run(ref))
    /\ WorkflowUnchanged

\* the job of a run ends: the deploy step succeeded, or a step exited with 1
studio(i, conclusion) ==
    /\ i \in DOMAIN workflow
    /\ InProgress(i)
    /\ workflow' = [workflow EXCEPT ![i].status = conclusion]
    /\ WorkflowUnchanged

NextWorkflow ==
    \/ \E ref \in Refs, file \in ChangedFiles : push(ref, file)
    \/ \E i \in 1..MaxRuns, conclusion \in {"success", "failure"} :
           studio(i, conclusion)

SpecWorkflow == Init /\ [][NextWorkflow]_vars

(***************************************************************************)
(* Properties of the verification functions.                               *)
(***************************************************************************)
\* a call of f has settled and the caller holds its promise
Settled(f) == pc = "done" /\ fn = f
ResultIs(b) == promise.state = "fulfilled" /\ promise.value = b

\* the accounts a settled call is about, as they are on the ledger
TargetAttestationPda ==
    deriveAttestationPda(schemas[schemaPda].credential, schemaPda, userAddress)
TargetMintPda == deriveAttestationMintPda(TargetAttestationPda)
SchemaActive == schemaPda \in DOMAIN schemas /\ ~schemas[schemaPda].isPaused
SchemaPaused == schemaPda \in DOMAIN schemas /\ schemas[schemaPda].isPaused
HasAttestation ==
    /\ schemaPda \in DOMAIN schemas
    /\ TargetAttestationPda \in DOMAIN attestations
TargetAttestation == attestations[TargetAttestationPda]
PayloadDecodes ==
    deserializeAttestationData(schemas[schemaPda], TargetAttestation.data).type
        = "return"
\* the ledger conditions of a valid attestation: schema active, attestation
\* account present, payload decodable
ValidOnLedger == SchemaActive /\ HasAttestation /\ PayloadDecodes

C2_NeverAttestedIsNotVerified ==
    (/\ Settled("verifyAttestation")
     /\ <<schemaPda, userAddress>> \notin everCreated)
        => ResultIs(FALSE)

\* the other subject holds a valid, unexpired attestation under the schema
C2_Witness ==
    /\ Settled("verifyAttestation")
    /\ stable
    /\ userAddress = "randomUser"
    /\ everCreated = {<<schemaPda, "testUser">>}
    /\ SchemaActive
    /\ LET other == deriveAttestationPda(schemas[schemaPda].credential,
                                         schemaPda, "testUser")
       IN  /\ other \in DOMAIN attestations
           /\ deserializeAttestationData(schemas[schemaPda],
                                         attestations[other].data).type = "return"
           /\ CurrentTimestamp(now) < attestations[other].expiry
    /\ cause = "NotFound"
    /\ ResultIs(FALSE)

\* the step in which fetchAttestation resolves with an account whose payload
\* decodes, and verifyAttestation compares the clock with the expiry
ComparesExpiry ==
    /\ pc = "fetchAttestation"
    /\ pc' = "done"
    /\ attestationPda \in DOMAIN attestations
    /\ deserializeAttestationData(schema, attestations[attestationPda].data).type
           = "return"

\* C3: for an attestation whose expiry is in the past verifyAttestation
\* returns false, although the account exists and decodes.
C3_ExpiredIsNotVerified ==
    [][(ComparesExpiry
        /\ attestations[attestationPda].expiry < CurrentTimestamp(now))
           => (promise'.state = "fulfilled" /\ promise'.value = FALSE)]_vars

C3_Witness ==
    /\ Settled("verifyAttestation")
    /\ stable
    /\ ValidOnLedger
    /\ TargetAttestation.expiry < CurrentTimestamp(now)
    /\ cause = "Expired"
    /\ ResultIs(FALSE)

\* C4: the comparison is strict: when the current time in whole seconds
\* equals the expiry, verifyAttestation returns false.
C4_StrictAtExpiry ==
    [][(ComparesExpiry
        /\ CurrentTimestamp(now) = attestations[attestationPda].expiry)
           => (promise'.state = "fulfilled" /\ promise'.value = FALSE)]_vars

C4_Witness ==
    /\ Settled("verifyAttestation")
    /\ stable
    /\ ValidOnLedger
    /\ CurrentTimestamp(now) = TargetAttestation.expiry
    /\ cause = "Expired"
    /\ ResultIs(FALSE)

\* C5: for a schema whose pause flag is set verifyAttestation returns false,
\* whatever the state of the attestation.
C5_PausedIsNotVerified ==
    (/\ Settled("verifyAttestation")
     /\ stable
     /\ SchemaPaused)
        => ResultIs(FALSE)

\* paused although the attestation is present, decodable and unexpired
C5_Witness ==
    /\ Settled("verifyAttestation")
    /\ stable
    /\ SchemaPaused
    /\ HasAttestation
    /\ PayloadDecodes
    /\ CurrentTimestamp(now) < TargetAttestation.expiry
    /\ cause = "Paused"
    /\ ResultIs(FALSE)

\* C6: every verification path returns false for a paused schema:
\* verifyAttestation and verifyTokenAttestation alike.
C6_PausedUnverifiableOnEveryPath ==
    (/\ pc = "done"
     /\ fn \in Functions
     /\ stable
     /\ SchemaPaused)
        => ResultIs(FALSE)

FailureKinds == {"NotFound", "Decode", "Expired", "Paused", "RpcError", "BadAddress"}

\* C7: verifyAttestation never raises: its promise is always fulfilled with
\* a boolean, and every failure kind gives the same value, false.
C7_NeverRaises ==
    /\ fn = "verifyAttestation" => promise.state # "rejected"
    /\ Settled("verifyAttestation") =>
           /\ promise.state = "fulfilled"
           /\ promise.value \in BOOLEAN
           /\ cause \in FailureKinds => promise.value = FALSE
           /\ promise.value = FALSE => cause \in FailureKinds

\* an error thrown inside the try block was turned into false
C7_Witness ==
    /\ Settled("verifyAttestation")
    /\ cause \in {"NotFound", "Decode", "RpcError", "BadAddress"}
    /\ ResultIs(FALSE)

\* C8: when the attestation exists but its payload does not decode under
\* the schema layout, verifyAttestation returns false, expired or not: the
\* decoding failure, not the expiry comparison, decides.
C8_UndecodableIsNotVerified ==
    (/\ Settled("verifyAttestation")
     /\ stable
     /\ SchemaActive
     /\ HasAttestation
     /\ ~PayloadDecodes)
        => (ResultIs(FALSE) /\ cause \in {"Decode", "RpcError"})

C8_Witness ==
    /\ Settled("verifyAttestation")
    /\ stable
    /\ SchemaActive
    /\ HasAttestation
    /\ ~PayloadDecodes
    /\ CurrentTimestamp(now) < TargetAttestation.expiry
    /\ cause = "Decode"
    /\ ResultIs(FALSE)

\* a step in which a verifyAttestation call settles, the ledger unchanged
\* since the call began and holding a decodable attestation under an active
\* schema, issued at the start of the run with the demo expiry of a year;
\* the clock reaches that expiry at the instant ExpiryTicks
SettlesOnDemoAttestation ==
    /\ fn = "verifyAttestation"
    /\ pc # "done"
    /\ pc' = "done"
    /\ stable
    /\ ValidOnLedger
    /\ TargetAttestation.expiry = ExpirySeconds

TargetMint == mints[TargetMintPda]
HasTargetMint ==
    /\ schemaPda \in DOMAIN schemas
    /\ IsAddress(userAddress)
    /\ TargetMintPda \in DOMAIN mints
    /\ TargetMint.extensions.option = "Some"
TargetGroupMember == Find(TargetMint.extensions.value, "TokenGroupMember")
TargetMetadata == Find(TargetMint.extensions.value, "TokenMetadata")

\* C10: verifyTokenAttestation returns false if the TokenGroupMember
\* extension of the attestation mint names a group other than the schema's
\* own mint address.
C10_ForeignGroupIsNotVerified ==
    (/\ Settled("verifyTokenAttestation")
     /\ stable
     /\ HasTargetMint
     /\ TargetGroupMember.option = "Some"
     /\ TargetGroupMember.value.group # deriveSchemaMintPda(schemaPda))
        => ResultIs(FALSE)

\* the group is the only thing wrong with the token
C10_Witness ==
    /\ Settled("verifyTokenAttestation")
    /\ stable
    /\ HasTargetMint
    /\ TargetGroupMember.option = "Some"
    /\ TargetGroupMember.value.group # deriveSchemaMintPda(schemaPda)
    /\ TargetMetadata.option = "Some"
    /\ TargetMetadata.value.additionalMetadata.attestation = TargetAttestationPda
    /\ TargetMetadata.value.additionalMetadata.schema = schemaPda
    /\ cause = "Structure"
    /\ ResultIs(FALSE)

\* the call came back from the await op with a value, not an error
AwaitReturned(op) ==
    \E i \in DOMAIN trace : trace[i].op = op /\ trace[i].type = "return"

\* the mint at the attestation-mint address of the call's subject has
\* extensions, is a member of the schema's token group, and its metadata
\* names the attestation address and the schema address
TokenStructureValid ==
    /\ HasTargetMint
    /\ \E i \in DOMAIN TargetMint.extensions.value :
           LET ext == TargetMint.extensions.value[i] IN
           /\ ext.kind = "TokenGroupMember"
           /\ ext.group = deriveSchemaMintPda(schemaPda)
    /\ \E i \in DOMAIN TargetMint.extensions.value :
           LET ext == TargetMint.extensions.value[i] IN
           /\ ext.kind = "TokenMetadata"
           /\ ext.additionalMetadata.attestation = TargetAttestationPda
           /\ ext.additionalMetadata.schema = schemaPda

\* C11 as stated: verifyTokenAttestation returns true exactly when the
\* schema fetch succeeds and a mint account with a valid structure exists at
\* the attestation-mint address of the subject, and false, never an
\* exception, otherwise.
C11_AsStated ==
    (Settled("verifyTokenAttestation") /\ stable) =>
        /\ promise.state = "fulfilled"
        /\ promise.value = (AwaitReturned("fetchSchema") /\ TokenStructureValid)

\* C11 amended: true exactly when the schema fetch and the mint fetch both
\* succeed and the mint fetched has the valid structure; false, never an
\* exception, otherwise.
C11_TokenVerifiedExactlyWhen ==
    (Settled("verifyTokenAttestation") /\ stable) =>
        /\ promise.state = "fulfilled"
        /\ promise.value = (/\ AwaitReturned("fetchSchema")
                            /\ AwaitReturned("fetchMint")
                            /\ TokenStructureValid)

C11_Witness ==
    /\ Settled("verifyTokenAttestation")
    /\ stable
    /\ AwaitReturned("fetchSchema")
    /\ AwaitReturned("fetchMint")
    /\ TokenStructureValid
    /\ ResultIs(TRUE)

\* a step in which a verifyTokenAttestation call settles for a subject whose
\* token has the valid structure and whose attestation has expired
SettlesOnExpiredToken ==
    /\ fn = "verifyTokenAttestation"
    /\ pc # "done"
    /\ pc' = "done"
    /\ stable
    /\ TokenStructureValid
    /\ HasAttestation
    /\ TargetAttestation.expiry <= CurrentTimestamp(now)

FirstBytes(name) ==
    [i \in 1 .. (IF Len(name) < MaxSeedLen THEN Len(name) ELSE MaxSeedLen) |-> name[i]]

\* C14: only the first 32 bytes of a name are used in deriving a credential
\* or schema address: under the same authority (or credential and version)
\* two names with the same first 32 bytes derive the same address, and two
\* names that differ within the first 32 bytes are derived from different
\* seeds.
C14_NameTruncatedToSeed ==
    deriver.pc \in {"credential", "schema"} =>
        /\ FirstBytes(deriver.nameA) = FirstBytes(deriver.nameB)
               => deriver.addressA = deriver.addressB
        /\ FirstBytes(deriver.nameA) # FirstBytes(deriver.nameB)
               => deriver.addressA # deriver.addressB

\* two distinct names longer than a seed collide
C14_Witness ==
    /\ deriver.pc = "credential"
    /\ deriver.nameA # deriver.nameB
    /\ Len(deriver.nameA) > MaxSeedLen
    /\ Len(deriver.nameB) > MaxSeedLen
    /\ deriver.addressA = deriver.addressB

\* the awaits the call has come back from, by name
Awaits == [i \in DOMAIN trace |-> trace[i].op]
\* how many times the call has issued the fetch op: those it came back
\* from and the one it is suspended at
Issued(op) ==
    Cardinality({i \in DOMAIN trace : trace[i].op = op})
        + (IF pc = op THEN 1 ELSE 0)

\* C17: a verification never retries: one call of verifyAttestation issues
\* at most one schema fetch and at most one attestation fetch, and a single
\* failure of either fetch immediately makes the result false.
C17_NeverRetries ==
    fn = "verifyAttestation" =>
        /\ Issued("fetchSchema") <= 1
        /\ Issued("fetchAttestation") <= 1
        /\ \A i \in DOMAIN trace :
               (trace[i].op \in {"fetchSchema", "fetchAttestation"}
                /\ trace[i].type = "throw")
                  => (i = Len(trace) /\ pc = "done" /\ ResultIs(FALSE))

\* the attestation fetch failed in transport, once, and the call is over
C17_Witness ==
    /\ Settled("verifyAttestation")
    /\ stable
    /\ Awaits = <<"fetchSchema", "deriveAttestationPda", "fetchAttestation">>
    /\ trace[1].type = "return"
    /\ ~trace[3].rpcOk
    /\ HasAttestation
    /\ ResultIs(FALSE)

\* C18: within one verifyAttestation call the steps are strictly ordered:
\* the schema fetch has completed before the attestation address is derived
\* and before the attestation fetch begins, and for a paused schema the call
\* returns false without ever fetching the attestation.
C18_StepsInOrder ==
    fn = "verifyAttestation" =>
        /\ pc = "fetchSchema" => Awaits = <<>>
        /\ pc = "deriveAttestationPda" =>
               (Awaits = <<"fetchSchema">> /\ trace[1].type = "return")
        /\ pc = "fetchAttestation" =>
               /\ Awaits = <<"fetchSchema", "deriveAttestationPda">>
               /\ trace[1].type = "return"
               /\ trace[2].type = "return"
        /\ pc = "done" =>
               \E n \in 1 .. 3 :
                   Awaits = SubSeq(<<"fetchSchema", "deriveAttestationPda",
                                     "fetchAttestation">>, 1, n)
        /\ pc \in {"deriveAttestationPda", "fetchAttestation"} => ~schema.isPaused
        /\ (stable /\ SchemaPaused) => Issued("fetchAttestation") = 0
        /\ cause = "Paused" => (Awaits = <<"fetchSchema">> /\ ResultIs(FALSE))

\* paused schema, attestation present: the call ended after the schema fetch
C18_Witness ==
    /\ Settled("verifyAttestation")
    /\ stable
    /\ SchemaPaused
    /\ HasAttestation
    /\ Awaits = <<"fetchSchema">>
    /\ cause = "Paused"
    /\ ResultIs(FALSE)

\* whether the transport answered the fetch op of a call with awaits t; a
\* fetch the call never issued counts as answered
RpcOk(t, op) ==
    \A i \in DOMAIN t : t[i].op = op => t[i].rpcOk

\* what the function f returns for the arguments, on the ledger and at the
\* clock as they are, run on its own with the transport outcomes of awaits t
RunAlone(f, address, user, t) ==
    Settle(IF f = "verifyAttestation"
           THEN verifyAttestation(address, user, RpcOk(t, "fetchSchema"),
                                  RpcOk(t, "fetchAttestation"), now)
           ELSE verifyTokenAttestation(address, user, RpcOk(t, "fetchSchema"),
                                       RpcOk(t, "fetchMint")))

\* a step of a verification, the first or the second
VerificationStep == pc' # pc \/ peer'.pc # peer.pc

\* both verifications have settled and they were the same call
SameCall ==
    /\ pc = "done"
    /\ peer.pc = "done"
    /\ fn = peer.fn
    /\ schemaPda = peer.schemaPda
    /\ userAddress = peer.userAddress
SameTransport ==
    \A op \in {"fetchSchema", "fetchAttestation", "fetchMint"} :
        RpcOk(trace, op) = RpcOk(peer.trace, op)

\* C15 as stated: verification changes no ledger account, and the same call
\* made again on the same ledger at the same clock returns the same result.
C15_AsStated ==
    [][/\ VerificationStep => ledger' = ledger
       /\ SameCall => promise = peer.promise]_vars

\* C15 amended: the same call made again returns the same result when its
\* fetches meet the same transport outcomes.
C15_VerificationChangesNothing ==
    [][/\ VerificationStep => ledger' = ledger
       /\ (SameCall /\ SameTransport) => promise = peer.promise]_vars

\* the call and its repetition both found the attestation valid
C15_Witness ==
    /\ SameCall
    /\ SameTransport
    /\ HasAttestation
    /\ ResultIs(TRUE)
    /\ peer.promise = promise

\* C16: verifications run concurrently for different subjects against an
\* unchanged ledger each return, under every interleaving of their awaits,
\* the result they return when run alone.
C16_ConcurrentAsAlone ==
    /\ (pc = "done" /\ peer.pc # "idle" /\ peer.userAddress # userAddress)
           => promise = RunAlone(fn, schemaPda, userAddress, trace)
    /\ (peer.pc = "done" /\ pc # "idle" /\ peer.userAddress # userAddress)
           => peer.promise = RunAlone(peer.fn, peer.schemaPda, peer.userAddress,
                                      peer.trace)

\* the first verification returned true for its subject while the second,
\* for another subject, was suspended at its attestation fetch
C16_Witness ==
    /\ Settled("verifyAttestation")
    /\ userAddress = "testUser"
    /\ ResultIs(TRUE)
    /\ peer.pc = "fetchAttestation"
    /\ peer.userAddress = "randomUser"
    /\ Len(trace) = 3

\* the authorized signers now listed in the credential of an attestation
AuthorizedNow(account) ==
    {credentials[account.credential].authorizedSigners[i] :
        i \in DOMAIN credentials[account.credential].authorizedSigners}

\* C19: in every reachable state the signer of each existing attestation is
\* one of the authorized signers currently listed in its credential.
C19_SignerStaysAuthorized ==
    \A a \in DOMAIN attestations :
        attestations[a].signer \in AuthorizedNow(attestations[a])

\* C20: create-attestation, plain or tokenized, succeeds only when the
\* signing authority is in the credential's authorized-signer list at that
\* moment: a signer added later creates attestations only after the change,
\* a signer removed no longer does.
C20_OnlyListedSignersAttest ==
    [][\A a \in DOMAIN attestations' \ DOMAIN attestations :
           attestations'[a].signer \in AuthorizedNow(attestations'[a])]_vars

\* authorizedSigner2, added after authorizedSigner1 had attested, has
\* attested for the other subject; authorizedSigner1 is no longer listed
C20_Witness ==
    /\ \E a \in DOMAIN attestations : attestations[a].signer = "authorizedSigner1"
    /\ \E a \in DOMAIN attestations :
           /\ attestations[a].signer = "authorizedSigner2"
           /\ AuthorizedNow(attestations[a]) = {"authorizedSigner2"}

\* C21: change-authorized-signers replaces the list: after it succeeds the
\* credential's authorized signers are exactly the list given, a signer that
\* is not in the list given can no longer create an attestation under the
\* credential, and the credential's authority and name are unchanged.
C21_SignersReplaced ==
    [][\A a \in Wallets, c \in DOMAIN credentials, l \in SignerListChoices :
           ChangeAuthorizedSigners(a, c, l) =>
               /\ c \in DOMAIN credentials'
               /\ credentials'[c].authorizedSigners = l
               /\ credentials'[c].authority = credentials[c].authority
               /\ credentials'[c].name = credentials[c].name
               /\ \A w \in Wallets \ Range(l), s \in SchemaAddrs, u \in Users :
                      ~CanAttest(w, c, s, u)']_vars

\* the credential created with [authorizedSigner1] now lists only
\* authorizedSigner2, under the same authority and name, and has a schema
\* with a subject authorizedSigner2 could attest
C21_Witness ==
    \E c \in DOMAIN credentials :
        /\ credentials[c].authorizedSigners = <<"authorizedSigner2">>
        /\ credentials[c].authority = "issuer"
        /\ credentials[c].name = CREDENTIAL_NAME
        /\ \E s \in DOMAIN schemas, u \in Users :
               CanAttest("authorizedSigner2", c, s, u)

\* C22: only the credential authority can modify the list of authorized
\* signers: no step is a change-authorized-signers signed by another address,
\* a currently authorized signer included, and a step signed by nobody but
\* such addresses leaves every credential as it is.
C22_OnlyAuthorityChangesSigners ==
    [][\A c \in DOMAIN credentials :
           /\ \A a \in Wallets \ {credentials[c].authority}, l \in SignerListChoices :
                  ~ChangeAuthorizedSigners(a, c, l)
           /\ credentials'[c] # credentials[c] =>
                  \E l \in SignerListChoices :
                      ChangeAuthorizedSigners(credentials[c].authority, c, l)]_vars

\* the authority has changed the list, and both listed signers, neither of
\* them the authority, are authorized at this moment
C22_Witness ==
    \E c \in DOMAIN credentials :
        /\ credentials[c].authorizedSigners = <<"authorizedSigner1", "authorizedSigner2">>
        /\ credentials[c].authority \notin Range(credentials[c].authorizedSigners)
        /\ \E s \in DOMAIN schemas, u \in Users :
               CanAttest("authorizedSigner1", c, s, u)

\* the attestation a settled call is about was closed by the instruction
\* named, and no attestation was created for the subject since
TargetClosedBy(instruction) ==
    /\ schemaPda \in DOMAIN schemas
    /\ IsAddress(userAddress)
    /\ TargetAttestationPda \in DOMAIN closedBy
    /\ closedBy[TargetAttestationPda] = instruction

\* C23: closing an attestation revokes it: once close-attestation has
\* succeeded for a subject, and until a new attestation is created for it,
\* the attestation account does not exist and verifyAttestation returns
\* false for that subject.
C23_ClosedIsRevoked ==
    /\ \A t \in DOMAIN closedBy : t \notin DOMAIN attestations
    /\ (/\ Settled("verifyAttestation")
        /\ stable
        /\ TargetClosedBy("CloseAttestation"))
           => ResultIs(FALSE)

\* the attestation of testUser, created on an active schema and not yet
\* expired, was closed; the call found no account and returned false
C23_Witness ==
    /\ Settled("verifyAttestation")
    /\ stable
    /\ userAddress = "testUser"
    /\ TargetClosedBy("CloseAttestation")
    /\ SchemaActive
    /\ CurrentTimestamp(now) < ExpiryTimestamp(0)
    /\ cause = "NotFound"
    /\ ResultIs(FALSE)

\* C24: only authorized signers of the credential can close an attestation
\* or a tokenized attestation: no step is a close whose authority is not in
\* the credential's authorized-signer list, and an attestation or an
\* attestation mint leaves the ledger only in a close signed by a wallet of
\* that list.
C24_OnlyListedSignersClose ==
    [][\A t \in DOMAIN attestations :
           LET c == attestations[t].credential
               listed == AuthorizedNow(attestations[t])
               token == deriveAttestationMintPda(t)
           IN  /\ \A a \in Wallets \ listed :
                      /\ ~CloseAttestation(a, c, t)
                      /\ \A m \in DOMAIN mints :
                             ~CloseTokenizedAttestation(a, c, t, m,
                                                        attestations[t].tokenAccount)
               /\ (\/ t \notin DOMAIN attestations'
                   \/ token \in DOMAIN mints \ DOMAIN mints') =>
                      \E a \in listed :
                          \/ CloseAttestation(a, c, t)
                          \/ CloseTokenizedAttestation(a, c, t, token,
                                                       attestations[t].tokenAccount)]_vars

\* a tokenized attestation was closed by a listed signer; the other one and
\* its token are in place, and the signer who created it is no longer listed
C24_Witness ==
    /\ \E t \in DOMAIN closedBy : closedBy[t] = "CloseTokenizedAttestation"
    /\ \E t \in DOMAIN attestations :
           /\ deriveAttestationMintPda(t) \in DOMAIN mints
           /\ attestations[t].signer \notin AuthorizedNow(attestations[t])

\* the attestation addresses of the subjects, under the schemas on the ledger
AttestationAddrs ==
    {deriveAttestationPda(schemas[s].credential, s, u) :
        s \in DOMAIN schemas, u \in Users}

\* an attestation account that holds a token account
Tokenized(t) ==
    t \in DOMAIN attestations /\ attestations[t].tokenAccount # DefaultAddress

\* after close-tokenized-attestation, and until a new attestation is created
\* for the subject, neither the attestation account nor the mint exists and
\* both verifications return false
ClosedTokenIsGone ==
    /\ \A t \in DOMAIN closedBy :
           closedBy[t] = "CloseTokenizedAttestation" =>
               /\ t \notin DOMAIN attestations
               /\ deriveAttestationMintPda(t) \notin DOMAIN mints
    /\ (/\ pc = "done"
        /\ stable
        /\ TargetClosedBy("CloseTokenizedAttestation"))
           => ResultIs(FALSE)

TokenizedAttestationInForce ==
    /\ SchemaActive
    /\ IsAddress(userAddress)
    /\ deriveSchemaMintPda(schemaPda) \in DOMAIN mints
    /\ Tokenized(TargetAttestationPda)
    /\ TargetAttestation.tokenAccount = findAssociatedTokenPda(TargetMintPda, userAddress)
    /\ CurrentTimestamp(now) < TargetAttestation.expiry

AttestationMints ==
    {m \in DOMAIN mints :
        /\ mints[m].extensions.option = "Some"
        /\ \E i \in DOMAIN mints[m].extensions.value :
               mints[m].extensions.value[i].kind = "TokenMetadata"}

\* the schema named in the metadata of an attestation mint
SchemaOfMint(m) ==
    LET extensions == mints[m].extensions.value
        i == CHOOSE j \in DOMAIN extensions : extensions[j].kind = "TokenMetadata"
    IN  extensions[i].additionalMetadata.schema

\* C27: create-tokenized-attestation cannot succeed for a schema until
\* tokenize-schema has succeeded for it: in every reachable state an
\* attestation mint exists only if the group mint of its schema exists, and
\* so does every attestation that holds a token account.
C27_TokenizedSchemaFirst ==
    /\ \A m \in AttestationMints :
           deriveSchemaMintPda(SchemaOfMint(m)) \in DOMAIN mints
    /\ \A t \in DOMAIN attestations :
           Tokenized(t) =>
               deriveSchemaMintPda(attestations[t].schema) \in DOMAIN mints

\* the schema was tokenized and one subject then received an attestation
\* with a token; the other subject holds an attestation without one
C27_Witness ==
    /\ \E m \in AttestationMints :
           deriveSchemaMintPda(SchemaOfMint(m)) \in DOMAIN mints
    /\ \E t \in DOMAIN attestations : Tokenized(t)
    /\ \E t \in DOMAIN attestations : ~Tokenized(t)

HeadersLogged ==
    SelectSeq(main.log,
              LAMBDA line : \E i \in DOMAIN MainSteps(main.script) :
                                line = Header(MainSteps(main.script)[i]))
Logged(line) == \E i \in DOMAIN main.log : main.log[i] = line

\* the steps of the script main has entered are its first steps, in order
StepsInOrder ==
    /\ Len(HeadersLogged) \in 1..Len(MainSteps(main.script))
    /\ \A i \in DOMAIN HeadersLogged :
           HeadersLogged[i] = Header(MainSteps(main.script)[i])
    /\ main.step = MainSteps(main.script)[Len(HeadersLogged)]

\* every transaction step before position n of the script was confirmed
ConfirmedBefore(n) ==
    \A i \in 1..(n - 1) :
        MainSteps(main.script)[i] \in TransactionSteps =>
            Logged(Description(MainSteps(main.script)[i]))

\* C29: main runs its steps strictly in order; when a transaction step fails
\* sendAndConfirmInstructions rethrows, no later step is executed and the
\* process exits with code 1; the success message is printed only when every
\* step succeeded; a verification that returns false does not abort the demo.
C29_MainStopsAtFirstFailure ==
    /\ [](main.pc # "idle" =>
            /\ StepsInOrder
            /\ ConfirmedBefore(Len(HeadersLogged))
            /\ (main.error # NoError) <=> (main.pc = "rejected" \/ Logged(FAILURE_MESSAGE))
            /\ (main.error # NoError /\ main.step \in TransactionSteps) =>
                   ~Logged(Description(main.step))
            /\ main.pc = "exited" =>
                   main.exitCode = (IF main.error # NoError THEN 1 ELSE 0)
            /\ Logged(SUCCESS_MESSAGE) =>
                   /\ main.pc = "exited"
                   /\ main.exitCode = 0
                   /\ ConfirmedBefore(Len(MainSteps(main.script)) + 1)
            /\ Logged(FAILURE_MESSAGE) => ~Logged(SUCCESS_MESSAGE))
    /\ [][/\ main.pc \in {"rejected", "exited"} =>
                 /\ UNCHANGED ledger
                 /\ HeadersLogged' = HeadersLogged
          /\ (main.pc = "running"
                 /\ main.step \in {"verifyAttestations", "verifyAttestationToken"}) =>
                 main'.pc \in {"running", "fulfilled"}]_vars

\* the transaction of createAttestation failed after the schema was created:
\* sendAndConfirmInstructions rethrew, main entered no later step and the
\* process exited with code 1 after the failure message
C29_Witness ==
    /\ main.pc = "exited"
    /\ main.exitCode = 1
    /\ main.step = "createAttestation"
    /\ Logged(Description("createSchema"))
    /\ Len(main.error) = 2
    /\ main.error[1] = "Failed to " \o toLowerCase(Description("createAttestation"))
    /\ Logged(FAILURE_MESSAGE)

\* the runs of a ref that are in progress
RunsInProgress(ref) ==
    {i \in DOMAIN workflow : workflow[i].ref = ref /\ InProgress(i)}

\* a step that triggers a run
Triggered == Len(workflow') = Len(workflow) + 1

\* C30: the Sanity Studio workflow never has two runs in progress for the
\* same ref: a newly triggered run cancels the run of its group that is still
\* in progress, and leaves the runs of the other ref as they are; a run is
\* cancelled only by a new run of its own ref.
C30_OneRunPerRef ==
    /\ [](\A ref \in Refs : Cardinality(RunsInProgress(ref)) <= 1)
    /\ [][/\ Triggered =>
                 \A i \in DOMAIN workflow :
                     IF workflow[i].ref = workflow'[Len(workflow')].ref
                     THEN InProgress(i) => workflow'[i].status = "cancelled"
                     ELSE workflow'[i] = workflow[i]
          /\ \A i \in DOMAIN workflow :
                 (InProgress(i) /\ workflow'[i].status = "cancelled") =>
                     /\ Triggered
                     /\ workflow'[Len(workflow')].ref = workflow[i].ref]_vars

\* a push to main cancelled main's run while the run of development that had
\* started before it is still in progress
C30_Witness ==
    \E i, j, k \in DOMAIN workflow :
        /\ i < j /\ j < k
        /\ workflow[i].ref = "refs/heads/main" /\ workflow[i].status = "cancelled"
        /\ workflow[j].ref = "refs/heads/development" /\ InProgress(j)
        /\ workflow[j].environment = "staging"
        /\ workflow[k].ref = "refs/heads/main" /\ InProgress(k)
        /\ workflow[k].environment = "Production"

====
